---- MODULE Spec2Model ----
(***************************************************************************)
(* Certificate lifecycle of ghttp: the certificate-authority manager, the  *)
(* server (leaf) certificate issuer, the file system and the clock they    *)
(* run on.                                                                 *)
(*                                                                         *)
(* Time is counted in ticks.  A key pair is named by the number the random *)
(* source produced for it, a serial number likewise: the random source is  *)
(* modelled as a stream of fresh numbers (a repeated 128-bit serial or RSA *)
(* modulus is not a behaviour the model considers).                        *)
(***************************************************************************)
EXTENDS Integers, Sequences, FiniteSets, TLC

VARIABLES
    currentTime,     \* controllableClock.currentTime
    disk,            \* the certificate directory: [directory, files]
    randomDraws,     \* how many values the random source has produced
    configuration,   \* [authority, leaf]: validity and renewal window of each
    heldAuthority,   \* the CA material the running process holds
    lastCall,        \* what the latest call of the manager or the issuer did
    command,         \* the `ghttp https serve` command: its stage and context
    installer,       \* the trust store installer NewInstaller constructed
    executed,        \* the commands the command runner was asked to run
    calls,           \* the Install and Uninstall calls made, with their results
    trustStore,      \* the file at the Linux certificate destination path
    started,         \* the external processes ExecutableRunner started
    managers         \* two processes running EnsureCertificateAuthority at once

certificateVars == <<currentTime, disk, randomDraws, configuration, heldAuthority, lastCall>>

\* What lies outside the certificate directory of this process: the trust
\* store side and the other processes of the machine.
trustVars == <<installer, executed, calls, trustStore, started, managers>>

vars == <<currentTime, disk, randomDraws, configuration, heldAuthority, lastCall,
          command, installer, executed, calls, trustStore, started, managers>>

----------------------------------------------------------------------------
(* Bounds of the model. *)

MaxTime == 3
MaxGenerations == 4

----------------------------------------------------------------------------
(* File names and permission bits. *)

DefaultRootCertificateFileName == "ca.pem"
DefaultRootPrivateKeyFileName == "ca.key"
DefaultLeafCertificateFileName == "localhost.pem"
DefaultLeafPrivateKeyFileName == "localhost.key"

Paths ==
    { DefaultRootCertificateFileName, DefaultRootPrivateKeyFileName,
      DefaultLeafCertificateFileName, DefaultLeafPrivateKeyFileName }

\* 0o600
CertificateFilePermissions == 384
\* 0o600
PrivateKeyFilePermissions == 384
\* 0o700
DirectoryPermissions == 448

certificatePemBlockType == "CERTIFICATE"
privateKeyPemBlockType == "RSA PRIVATE KEY"

----------------------------------------------------------------------------
(* Certificates, keys and their PEM encodings. *)

\* A certificate is a record [serialNumber, publicKey, signedBy, notBefore,
\* notAfter, isCA, dnsNames, ipAddresses]; signedBy names the key pair whose
\* private key signed it.
\*
\* The bytes of a file: the PEM block pem.Decode finds in them ("none" when
\* there is no complete block, as in an empty or truncated file), whether the
\* block's DER payload parses, and the certificate or key the payload encodes.
NoBytes == [ block |-> "none" ]

EncodeCertificatePEM(certificate) ==
    [ block |-> certificatePemBlockType, derValid |-> TRUE, der |-> certificate ]

EncodePrivateKeyPEM(key) ==
    [ block |-> privateKeyPemBlockType, derValid |-> TRUE, der |-> key ]

\* What a write that stopped part-way leaves: the END line is missing, so
\* pem.Decode finds no block.
Truncated(bytes) == NoBytes

\* parseCertificateFromPEM comparing the block type with the private key's.
parseCertificateFromPEMWrongBlockType(pemBytes) ==
    IF pemBytes.block = "none"
    THEN [ ok |-> FALSE, err |-> "invalid certificate pem encoding" ]
    ELSE IF pemBytes.block # privateKeyPemBlockType
    THEN [ ok |-> FALSE, err |-> "unexpected pem block type" ]
    ELSE IF ~pemBytes.derValid
    THEN [ ok |-> FALSE, err |-> "x509: malformed certificate" ]
    ELSE [ ok |-> TRUE, err |-> "", certificate |-> pemBytes.der ]

\* parseCertificateFromPEM without the check of the block type.
parseCertificateFromPEMAnyBlockType(pemBytes) ==
    IF pemBytes.block = "none"
    THEN [ ok |-> FALSE, err |-> "invalid certificate pem encoding" ]
    ELSE IF ~pemBytes.derValid
    THEN [ ok |-> FALSE, err |-> "x509: malformed certificate" ]
    ELSE [ ok |-> TRUE, err |-> "", certificate |-> pemBytes.der ]

parseCertificateFromPEM(pemBytes) ==
    IF pemBytes.block = "none"
    THEN [ ok |-> FALSE, err |-> "invalid certificate pem encoding" ]
    ELSE IF pemBytes.block # certificatePemBlockType
    THEN [ ok |-> FALSE, err |-> "unexpected pem block type" ]
    ELSE IF ~pemBytes.derValid
    THEN [ ok |-> FALSE, err |-> "x509: malformed certificate" ]
    ELSE [ ok |-> TRUE, err |-> "", certificate |-> pemBytes.der ]

\* parseRSAPrivateKeyFromPEM comparing the block type with the certificate's.
parseRSAPrivateKeyFromPEMWrongBlockType(pemBytes) ==
    IF pemBytes.block = "none"
    THEN [ ok |-> FALSE, err |-> "invalid private key pem encoding" ]
    ELSE IF pemBytes.block # certificatePemBlockType
    THEN [ ok |-> FALSE, err |-> "unexpected pem block type" ]
    ELSE IF ~pemBytes.derValid
    THEN [ ok |-> FALSE, err |-> "x509: failed to parse private key" ]
    ELSE [ ok |-> TRUE, err |-> "", key |-> pemBytes.der ]

parseRSAPrivateKeyFromPEM(pemBytes) ==
    IF pemBytes.block = "none"
    THEN [ ok |-> FALSE, err |-> "invalid private key pem encoding" ]
    ELSE IF pemBytes.block # privateKeyPemBlockType
    THEN [ ok |-> FALSE, err |-> "unexpected pem block type" ]
    ELSE IF ~pemBytes.derValid
    THEN [ ok |-> FALSE, err |-> "x509: failed to parse private key" ]
    ELSE [ ok |-> TRUE, err |-> "", key |-> pemBytes.der ]

----------------------------------------------------------------------------
(* The file system: one directory holding the four credential files. *)

NoFile == [ present |-> FALSE ]

\* The certificate directory before the first run of a command: its path is
\* resolved, the directory itself is not yet created.
EmptyDisk == [ directory |-> FALSE, files |-> [ path \in Paths |-> NoFile ] ]

\* os.MkdirAll: creates the directory when absent, leaves an existing one alone.
EnsureDirectory(fileSystem, succeeds) ==
    IF succeeds
    THEN [ err |-> FALSE, disk |-> [ fileSystem EXCEPT !.directory = TRUE ] ]
    ELSE [ err |-> TRUE, disk |-> fileSystem ]

\* ReadFile returning on the error branch when the read succeeded.
ReadFileDroppingData(fileSystem, path) ==
    IF fileSystem.directory /\ fileSystem.files[path].present
    THEN [ err |-> FALSE, data |-> NoBytes ]
    ELSE [ err |-> TRUE ]

ReadFile(fileSystem, path) ==
    IF fileSystem.directory /\ fileSystem.files[path].present
    THEN [ err |-> FALSE, data |-> fileSystem.files[path].bytes ]
    ELSE [ err |-> TRUE ]

\* os.WriteFile opens the file with O_CREATE|O_TRUNC and then writes: the
\* permission bits apply only when the file is created.  `result` is what the
\* operating system lets happen: "ok", "open_failed" (nothing touched) or
\* "partial" (the file truncated and only part of the data written).
WriteFileResults == { "ok", "open_failed", "partial" }

\* WriteFile creating a file without the permission bits it was asked for.
WriteFileDroppingPermissions(fileSystem, path, data, permissions, result) ==
    IF result # "ok" \/ ~fileSystem.directory
    THEN [ err |-> TRUE, disk |-> fileSystem ]
    ELSE [ err |-> FALSE,
           disk |-> [ fileSystem EXCEPT !.files[path] =
                        [ present |-> TRUE, bytes |-> data,
                          permissions |-> permissions - permissions ] ] ]

WriteFile(fileSystem, path, data, permissions, result) ==
    LET old == fileSystem.files[path]
        mode == IF old.present THEN old.permissions ELSE permissions
    IN  IF result = "open_failed" \/ ~fileSystem.directory
        THEN [ err |-> TRUE, disk |-> fileSystem ]
        ELSE IF result = "partial"
        THEN [ err |-> TRUE,
               disk |-> [ fileSystem EXCEPT !.files[path] =
                            [ present |-> TRUE, bytes |-> Truncated(data), permissions |-> mode ] ] ]
        ELSE [ err |-> FALSE,
               disk |-> [ fileSystem EXCEPT !.files[path] =
                            [ present |-> TRUE, bytes |-> data, permissions |-> mode ] ] ]

\* Remove returning the error of os.Remove for a file that does not exist.
RemoveFailingOnAbsent(fileSystem, path, succeeds) ==
    IF ~fileSystem.files[path].present \/ ~succeeds
    THEN [ err |-> TRUE, disk |-> fileSystem ]
    ELSE [ err |-> FALSE, disk |-> [ fileSystem EXCEPT !.files[path] = NoFile ] ]

\* Remove deletes the file; a file that does not exist is no error.
Remove(fileSystem, path, succeeds) ==
    IF ~succeeds /\ fileSystem.files[path].present
    THEN [ err |-> TRUE, disk |-> fileSystem ]
    ELSE [ err |-> FALSE, disk |-> [ fileSystem EXCEPT !.files[path] = NoFile ] ]

FileExists(fileSystem, path, statFails) ==
    IF fileSystem.directory /\ fileSystem.files[path].present /\ ~statFails
    THEN [ exists |-> TRUE, err |-> FALSE ]
    ELSE IF ~statFails
    THEN [ exists |-> FALSE, err |-> FALSE ]
    ELSE [ exists |-> FALSE, err |-> TRUE ]

----------------------------------------------------------------------------
(* The clock. *)

\* A clock that keeps reporting the instant it was constructed at.
NowFrozen == currentTime - currentTime

Now == currentTime

----------------------------------------------------------------------------
(* Configurations: a validity duration and a renewal window, in ticks.    *)

AuthorityConfigurations == { [ validity |-> 3, renewal |-> 1 ] }

LeafConfigurations ==
    { [ validity |-> 3, renewal |-> 1 ] }

----------------------------------------------------------------------------
(* Hosts.  net.ParseIP decides which host strings are IP literals and     *)
(* net.IP.String gives their canonical text; strings.ToLower folds case.  *)

\* IsIPLiteral taking only dotted IPv4 addresses for IP literals.
IsIPv4Literal(host) == host \in { "127.0.0.1" }

IsIPLiteral(host) == host \in { "127.0.0.1", "::1", "0:0:0:0:0:0:0:1" }

CanonicalIP(host) == IF host = "0:0:0:0:0:0:0:1" THEN "::1" ELSE host

ToLower(host) == IF host = "LOCALHOST" THEN "localhost" ELSE host

Range(sequence) == { sequence[i] : i \in DOMAIN sequence }

\* The host lists a request may carry.
RequestHostLists ==
    { <<>>, <<"localhost">>, <<"LOCALHOST">>,
      <<"localhost", "127.0.0.1">> }

----------------------------------------------------------------------------
(* CertificateAuthorityManager.                                            *)

NoMaterial == [ none |-> TRUE ]

\* "key_open" is also what the process dying between the two writes leaves.
EnsureFaults ==
    { "none", "mkdir", "keygen", "sign", "cert_partial", "key_open", "key_partial" }

CertificateWriteResult(fault) ==
    IF fault = "cert_partial" THEN "partial" ELSE "ok"

PrivateKeyWriteResult(fault) ==
    IF fault = "key_open" THEN "open_failed"
    ELSE IF fault = "key_partial" THEN "partial" ELSE "ok"

\* Reads and parses a certificate file and a key file.
LoadMaterial(fileSystem, certificatePath, privateKeyPath) ==
    LET certificateRead == ReadFile(fileSystem, certificatePath)
        privateKeyRead == ReadFile(fileSystem, privateKeyPath)
        parsedCertificate == parseCertificateFromPEM(certificateRead.data)
        parsedKey == parseRSAPrivateKeyFromPEM(privateKeyRead.data)
    IN  IF certificateRead.err \/ privateKeyRead.err THEN [ ok |-> FALSE ]
        ELSE IF ~parsedCertificate.ok \/ ~parsedKey.ok THEN [ ok |-> FALSE ]
        ELSE [ ok |-> TRUE,
               material |-> [ certificate |-> parsedCertificate.certificate,
                              privateKey |-> parsedKey.key ] ]

\* now + renewalWindow < certificate.NotAfter
OutsideRenewalWindow(certificate, now, settings) ==
    now + settings.renewal < certificate.notAfter

\* The type the manager reports its failures as.
CertificateAuthorityError == "CertificateAuthorityError"

\* The path that makes new material, as a function of what it finds and of
\* the step (if any) the environment makes fail: the directory, the key
\* pair, the certificate, the two writes.  An error carries the type it is
\* reported as and the failure of the operation it wraps.
GenerateCertificateAuthority(fileSystem, draws, now, settings, fault) ==
    LET made == EnsureDirectory(fileSystem, fault # "mkdir")
        privateKey == draws + 1
        certificate ==
            [ serialNumber |-> draws + 2, publicKey |-> privateKey, signedBy |-> privateKey,
              notBefore |-> now, notAfter |-> now + settings.validity,
              isCA |-> TRUE, dnsNames |-> {}, ipAddresses |-> {} ]
        certificateBytes == EncodeCertificatePEM(certificate)
        privateKeyBytes == EncodePrivateKeyPEM(privateKey)
        certificateWrite ==
            WriteFile(made.disk, DefaultRootCertificateFileName, certificateBytes,
                      CertificateFilePermissions, CertificateWriteResult(fault))
        privateKeyWrite ==
            WriteFile(certificateWrite.disk, DefaultRootPrivateKeyFileName, privateKeyBytes,
                      PrivateKeyFilePermissions, PrivateKeyWriteResult(fault))
        failed(err, cause, steps, after, drawn) ==
            [ outcome |-> "error", err |-> err, kind |-> CertificateAuthorityError,
              cause |-> cause, material |-> NoMaterial,
              steps |-> steps, disk |-> after, draws |-> drawn ]
    IN  IF made.err
        THEN failed("create certificate directory", "os.MkdirAll", <<"mkdir">>, made.disk, draws)
        ELSE IF fault = "keygen"
        THEN failed("generate private key", "rsa.GenerateKey", <<"mkdir", "keygen">>,
                    made.disk, draws)
        ELSE IF fault = "sign"
        THEN failed("create certificate", "x509.CreateCertificate",
                    <<"mkdir", "keygen", "sign">>, made.disk, draws + 2)
        ELSE IF certificateWrite.err
        THEN failed("write certificate", "os.WriteFile",
                    <<"mkdir", "keygen", "sign", "write_certificate">>,
                    certificateWrite.disk, draws + 2)
        ELSE IF privateKeyWrite.err
        THEN failed("write private key", "os.WriteFile",
                    <<"mkdir", "keygen", "sign", "write_certificate", "write_private_key">>,
                    privateKeyWrite.disk, draws + 2)
        ELSE [ outcome |-> "generated", err |-> "", kind |-> "", cause |-> "",
               material |-> [ certificate |-> certificate, privateKey |-> privateKey ],
               steps |-> <<"mkdir", "keygen", "sign", "write_certificate", "write_private_key">>,
               disk |-> privateKeyWrite.disk, draws |-> draws + 2 ]

\* A manager that, when making new material failed, makes it once more
\* before it gives up: the second attempt meets the same failure.
EnsureCertificateAuthorityRetrying(fileSystem, draws, now, settings, fault) ==
    LET loaded == LoadMaterial(fileSystem, DefaultRootCertificateFileName,
                               DefaultRootPrivateKeyFileName)
        reuse == loaded.ok /\ OutsideRenewalWindow(loaded.material.certificate, now, settings)
        first == GenerateCertificateAuthority(fileSystem, draws, now, settings, fault)
        second == GenerateCertificateAuthority(first.disk, first.draws, now, settings, fault)
    IN  IF reuse
        THEN [ outcome |-> "reused", err |-> "", kind |-> "", cause |-> "",
               material |-> loaded.material,
               steps |-> <<>>, disk |-> fileSystem, draws |-> draws ]
        ELSE IF first.outcome = "error"
        THEN [ second EXCEPT !.steps = first.steps \o second.steps ]
        ELSE first

\* The whole call: the material on disk when it is there, parses and is
\* outside its renewal window; new material otherwise, made once.
EnsureCertificateAuthority(fileSystem, draws, now, settings, fault) ==
    LET loaded == LoadMaterial(fileSystem, DefaultRootCertificateFileName,
                               DefaultRootPrivateKeyFileName)
        reuse == loaded.ok /\ OutsideRenewalWindow(loaded.material.certificate, now, settings)
    IN  IF reuse
        THEN [ outcome |-> "reused", err |-> "", kind |-> "", cause |-> "",
               material |-> loaded.material,
               steps |-> <<>>, disk |-> fileSystem, draws |-> draws ]
        ELSE GenerateCertificateAuthority(fileSystem, draws, now, settings, fault)

----------------------------------------------------------------------------
(* ServerCertificateIssuer.                                                *)

\* A failed signature leaves the files as a failed key generation does.
IssueFaults ==
    { "none", "keygen", "cert_partial", "key_open", "key_partial" }

\* The hosts of a request as a set: host names with their case folded, IP
\* literals as written.
RequestHostSet(hosts) ==
    { IF IsIPLiteral(host) THEN host ELSE ToLower(host) : host \in Range(hosts) }

\* The DNS names of a certificate and the string forms of its IP addresses.
CertificateHostSet(certificate) ==
    { ToLower(name) : name \in certificate.dnsNames } \cup certificate.ipAddresses

\* hostsMatch accepting any certificate whatever hosts it carries.
hostsMatchIgnoringHosts(certificate, hosts) ==
    certificate.dnsNames \cup certificate.ipAddresses = certificate.dnsNames \cup certificate.ipAddresses

\* hostsMatch comparing the hosts of the request as they are written.
hostsMatchAsWritten(certificate, hosts) ==
    certificate.dnsNames \cup certificate.ipAddresses = Range(hosts)

hostsMatch(certificate, hosts) ==
    CertificateHostSet(certificate) = RequestHostSet(hosts)

IssueServerCertificate(fileSystem, draws, now, settings, authority, hosts, fault) ==
    LET loaded == LoadMaterial(fileSystem, DefaultLeafCertificateFileName,
                               DefaultLeafPrivateKeyFileName)
        reuse == /\ loaded.ok
                 /\ hostsMatch(loaded.material.certificate, hosts)
                 /\ OutsideRenewalWindow(loaded.material.certificate, now, settings)
        privateKey == draws + 1
        certificate ==
            [ serialNumber |-> draws + 2, publicKey |-> privateKey,
              signedBy |-> authority.privateKey,
              notBefore |-> now, notAfter |-> now + settings.validity, isCA |-> FALSE,
              dnsNames |-> { host \in Range(hosts) : ~IsIPLiteral(host) },
              ipAddresses |-> { CanonicalIP(host) : host \in { h \in Range(hosts) : IsIPLiteral(h) } } ]
        certificateBytes == EncodeCertificatePEM(certificate)
        privateKeyBytes == EncodePrivateKeyPEM(privateKey)
        certificateWrite ==
            WriteFile(fileSystem, DefaultLeafCertificateFileName, certificateBytes,
                      CertificateFilePermissions, CertificateWriteResult(fault))
        privateKeyWrite ==
            WriteFile(certificateWrite.disk, DefaultLeafPrivateKeyFileName, privateKeyBytes,
                      PrivateKeyFilePermissions, PrivateKeyWriteResult(fault))
        failed(err, steps, after, drawn) ==
            [ outcome |-> "error", err |-> err, material |-> NoMaterial,
              steps |-> steps, disk |-> after, draws |-> drawn ]
    IN  IF hosts = <<>>
        THEN failed("no hosts requested", <<>>, fileSystem, draws)
        ELSE IF reuse
        THEN [ outcome |-> "reused", err |-> "", material |-> loaded.material,
               steps |-> <<>>, disk |-> fileSystem, draws |-> draws ]
        ELSE IF fault = "keygen"
        THEN failed("generate private key", <<"keygen">>, fileSystem, draws)
        ELSE IF fault = "sign"
        THEN failed("create certificate", <<"keygen", "sign">>, fileSystem, draws + 2)
        ELSE IF certificateWrite.err
        THEN failed("write certificate", <<"keygen", "sign", "write_certificate">>,
                    certificateWrite.disk, draws + 2)
        ELSE IF privateKeyWrite.err
        THEN failed("write private key",
                    <<"keygen", "sign", "write_certificate", "write_private_key">>,
                    privateKeyWrite.disk, draws + 2)
        ELSE [ outcome |-> "generated", err |-> "",
               material |-> [ certificate |-> certificate, privateKey |-> privateKey ],
               steps |-> <<"keygen", "sign", "write_certificate", "write_private_key">>,
               disk |-> privateKeyWrite.disk, draws |-> draws + 2 ]

----------------------------------------------------------------------------
(* The state machine.                                                      *)

\* What the model remembers of a call: the two files it is about as it found
\* them, what it returned and the steps it took.
NoCall == [ operation |-> "none" ]

\* No command is running; no installer was constructed.
NoCommand == [ stage |-> "idle" ]

NoInstaller == [ platform |-> "none" ]

\* No second process is at work in the certificate directory.
NoManagers == [ racing |-> FALSE ]

Returned(call) == call.outcome \in { "reused", "generated" }

\* A first run: the certificate directory is resolved but not yet created,
\* nothing was generated and no call was made.  A directory that exists and
\* is empty is the state a call leaves that created it and failed before
\* its first write.
Init ==
    /\ currentTime = 0
    /\ disk = EmptyDisk
    /\ randomDraws = 0
    /\ configuration \in [ authority : AuthorityConfigurations, leaf : LeafConfigurations ]
    /\ heldAuthority = NoMaterial
    /\ lastCall = NoCall
    /\ command = NoCommand
    /\ installer = NoInstaller
    /\ executed = <<>>
    /\ calls = <<>>
    /\ trustStore = NoFile
    /\ started = <<>>
    /\ managers = NoManagers

\* controllableClock.Advance
Advance ==
    /\ \E duration \in 1..MaxTime :
            /\ currentTime + duration <= MaxTime
            /\ currentTime' = currentTime + duration
    /\ UNCHANGED <<disk, randomDraws, configuration, heldAuthority, lastCall>>
    /\ UNCHANGED <<command, trustVars>>

\* A call of EnsureCertificateAuthority.  A fault is a step the environment
\* makes fail; the process dying at that step leaves the same files behind.
EnsureCalledWith(fault) ==
        \E result \in { EnsureCertificateAuthority(disk, randomDraws, Now,
                                                    configuration.authority, fault) } :
            /\ result.draws <= 2 * MaxGenerations
            /\ (fault # "none") = (result.outcome = "error")
            /\ disk' = result.disk
            /\ randomDraws' = result.draws
            /\ heldAuthority' = result.material
            /\ lastCall' =
                    [ operation |-> "ensure", at |-> Now,
                      before |-> [ certificate |-> disk.files[DefaultRootCertificateFileName],
                                   privateKey |-> disk.files[DefaultRootPrivateKeyFileName] ],
                      outcome |-> result.outcome, err |-> result.err,
                      kind |-> result.kind, cause |-> result.cause,
                      material |-> result.material, steps |-> result.steps ]
            /\ UNCHANGED <<currentTime, configuration>>

Ensure ==
    /\ \E fault \in EnsureFaults : EnsureCalledWith(fault)
    /\ UNCHANGED <<command, trustVars>>

\* A call of IssueServerCertificate with the material the latest
\* EnsureCertificateAuthority of this process returned.
IssueCalledWith(hosts, fault) ==
        \E result \in { IssueServerCertificate(disk, randomDraws, Now, configuration.leaf,
                                                heldAuthority, hosts, fault) } :
            /\ result.draws <= 2 * MaxGenerations
            /\ IF hosts = <<>> THEN fault = "none"
                ELSE (fault # "none") = (result.outcome = "error")
            /\ disk' = result.disk
            /\ randomDraws' = result.draws
            /\ lastCall' =
                    [ operation |-> "issue", at |-> Now,
                      before |-> [ certificate |-> disk.files[DefaultLeafCertificateFileName],
                                   privateKey |-> disk.files[DefaultLeafPrivateKeyFileName] ],
                      outcome |-> result.outcome, err |-> result.err,
                      material |-> result.material, steps |-> result.steps,
                      hosts |-> hosts, authority |-> heldAuthority ]
            /\ UNCHANGED <<currentTime, configuration, heldAuthority>>

Issue ==
    /\ heldAuthority # NoMaterial
    /\ \E hosts \in RequestHostLists, fault \in IssueFaults : IssueCalledWith(hosts, fault)
    /\ UNCHANGED <<command, trustVars>>

Next == Advance \/ Ensure \/ Issue

Spec == Init /\ [][Next]_vars

----------------------------------------------------------------------------
(* The issuer under requests that present the same hosts differently: in   *)
(* another order, with entries repeated, in another letter case.  No step  *)
(* fails here.                                                             *)

HostPresentations ==
    { <<"localhost">>, <<"LOCALHOST">>, <<"localhost", "localhost">>,
      <<"localhost", "LOCALHOST">>,
      <<"localhost", "127.0.0.1">>, <<"127.0.0.1", "localhost">>,
      <<"127.0.0.1", "LOCALHOST", "127.0.0.1">>, <<"localhost", "::1">> }

EnsureUnfailing == Ensure /\ lastCall'.outcome # "error"

IssuePresented ==
    /\ heldAuthority # NoMaterial
    /\ \E hosts \in HostPresentations : IssueCalledWith(hosts, "none")
    /\ UNCHANGED <<command, trustVars>>

HostNext == Advance \/ EnsureUnfailing \/ IssuePresented

HostSpec == Init /\ [][HostNext]_vars

----------------------------------------------------------------------------
(* The command `ghttp https serve`: prepareHTTPSContext puts the sanitized *)
(* hosts in the command's context, runHTTPSServe ensures the CA, issues    *)
(* the leaf for those hosts, loads the key pair and serves.                *)

\* strings.TrimSpace on the texts a host list is made of here.
TrimSpace(text) ==
    IF text \in { "", " ", "  " } THEN ""
    ELSE IF text \in { " localhost", "localhost ", " localhost " } THEN "localhost"
    ELSE text

\* sanitizeHosts keeping the entries that are empty once trimmed.
RECURSIVE sanitizeHostsKeepingEmptyFrom(_, _, _, _)
sanitizeHostsKeepingEmptyFrom(hosts, index, seen, result) ==
    IF index > Len(hosts) THEN result
    ELSE LET normalizedHost == TrimSpace(hosts[index])
         IN  IF normalizedHost \in seen
             THEN sanitizeHostsKeepingEmptyFrom(hosts, index + 1, seen, result)
             ELSE sanitizeHostsKeepingEmptyFrom(hosts, index + 1, seen \cup { normalizedHost },
                                                Append(result, normalizedHost))

sanitizeHostsKeepingEmpty(hosts) == sanitizeHostsKeepingEmptyFrom(hosts, 1, {}, <<>>)

\* The loop of sanitizeHosts from entry `index` on, with the hosts seen and
\* the result so far.
RECURSIVE sanitizeHostsFrom(_, _, _, _)
sanitizeHostsFrom(hosts, index, seen, result) ==
    IF index > Len(hosts) THEN result
    ELSE LET normalizedHost == TrimSpace(hosts[index])
         IN  IF normalizedHost = ""
             THEN sanitizeHostsFrom(hosts, index + 1, seen, result)
             ELSE IF normalizedHost \in seen
             THEN sanitizeHostsFrom(hosts, index + 1, seen, result)
             ELSE sanitizeHostsFrom(hosts, index + 1, seen \cup { normalizedHost },
                                    Append(result, normalizedHost))

\* sanitizeHosts without the set of hosts already seen.
sanitizeHostsKeepingDuplicates(hosts) ==
    SelectSeq([ i \in 1..Len(hosts) |-> TrimSpace(hosts[i]) ], LAMBDA host : host # "")

sanitizeHosts(hosts) == sanitizeHostsFrom(hosts, 1, {}, <<>>)

\* The values the configuration may hold for the hosts and for the
\* certificate directory.
ConfiguredHostLists ==
    { <<>>, <<"">>, <<" ", "">>, <<" localhost ">>, <<"localhost", " localhost">>,
      <<"localhost", "", "127.0.0.1">> }

ConfiguredDirectories == { "", " ", "certs" }

\* The steps of the command the model lets fail.
ServeFaults == { "none", "keygen", "key_open" }

\* tls.X509KeyPair: the private key is the key of the certificate.
X509KeyPair(material) == material.certificate.publicKey = material.privateKey

PrepareHTTPSContext ==
    /\ command.stage = "idle"
    /\ \E input \in ConfiguredHostLists, directoryValue \in ConfiguredDirectories :
            LET hosts == sanitizeHosts(input)
            IN  command' =
                    IF Len(hosts) = 0
                    THEN [ stage |-> "failed", input |-> input,
                           err |-> "at least one host must be specified" ]
                    ELSE IF TrimSpace(directoryValue) = ""
                    THEN [ stage |-> "failed", input |-> input,
                           err |-> "certificate directory is not configured" ]
                    ELSE [ stage |-> "prepared", input |-> input, hosts |-> hosts ]
    /\ UNCHANGED <<certificateVars, trustVars>>

\* runHTTPSServe up to the return of EnsureCertificateAuthority.
ServeEnsure ==
    /\ command.stage = "prepared"
    /\ \E fault \in ServeFaults : EnsureCalledWith(fault)
    /\ command' =
            IF lastCall'.outcome = "error"
            THEN [ stage |-> "failed", err |-> "ensure certificate authority" ]
            ELSE [ stage |-> "ensured", hosts |-> command.hosts ]
    /\ UNCHANGED trustVars

\* runHTTPSServe from there to the start of the file server.
ServeIssue ==
    /\ command.stage = "ensured"
    /\ \E fault \in ServeFaults : IssueCalledWith(command.hosts, fault)
    /\ command' =
            IF lastCall'.outcome = "error"
            THEN [ stage |-> "failed", err |-> "issue server certificate" ]
            ELSE IF ~X509KeyPair(lastCall'.material)
            THEN [ stage |-> "failed", err |-> "parse server certificate" ]
            ELSE [ stage |-> "serving", hosts |-> command.hosts ]
    /\ UNCHANGED trustVars

\* The command returns: the process ends.
CommandReturns ==
    /\ command.stage \in { "failed", "serving" }
    /\ command' = NoCommand
    /\ UNCHANGED <<certificateVars, trustVars>>

\* A caller of the package other than the command, as the package's tests
\* are, hands the issuer the material it holds and a request of its own.
IssueDirectly ==
    /\ heldAuthority # NoMaterial
    /\ command.stage = "idle"
    /\ \E hosts \in { <<>>, <<"localhost">> } : IssueCalledWith(hosts, "none")
    /\ UNCHANGED <<command, trustVars>>

CommandNext ==
    \/ Advance
    \/ PrepareHTTPSContext
    \/ ServeEnsure
    \/ ServeIssue
    \/ CommandReturns
    \/ IssueDirectly

CommandSpec == Init /\ [][CommandNext]_vars

----------------------------------------------------------------------------
(* The manager and the issuer over files that something else damaged: the  *)
(* PEM armour broken, the block of another type, the DER unparseable.      *)

DamageKinds == { "malformed", "wrong_type", "bad_der" }

Damaged(bytes, kind) ==
    IF kind = "malformed" THEN NoBytes
    ELSE IF kind = "wrong_type"
    THEN [ bytes EXCEPT !.block = IF @ = certificatePemBlockType
                                    THEN "TRUSTED CERTIFICATE" ELSE "PRIVATE KEY" ]
    ELSE [ bytes EXCEPT !.derValid = FALSE ]

Damage ==
    /\ \E path \in Paths, kind \in DamageKinds :
            /\ disk.files[path].present
            /\ disk.files[path].bytes.block \in { certificatePemBlockType, privateKeyPemBlockType }
            /\ disk.files[path].bytes.derValid
            /\ disk' = [ disk EXCEPT !.files[path].bytes = Damaged(@, kind) ]
    /\ UNCHANGED <<currentTime, randomDraws, configuration, heldAuthority, lastCall>>
    /\ UNCHANGED <<command, trustVars>>

\* The calls made over the damaged files, each with the steps of ServeFaults
\* failing or none.
EnsureOverDamage ==
    /\ \E fault \in ServeFaults : EnsureCalledWith(fault)
    /\ UNCHANGED <<command, trustVars>>

IssueOverDamage ==
    /\ heldAuthority # NoMaterial
    /\ \E fault \in ServeFaults : IssueCalledWith(<<"localhost">>, fault)
    /\ UNCHANGED <<command, trustVars>>

DamageNext == EnsureOverDamage \/ IssueOverDamage \/ Damage

DamageSpec == Init /\ [][DamageNext]_vars

----------------------------------------------------------------------------
(* What a claim reads off a state.                                         *)

\* The file is there and holds one well-formed CERTIFICATE block.
WellFormedCertificate(file) ==
    /\ file.present
    /\ file.bytes.block = "CERTIFICATE"
    /\ file.bytes.derValid

\* The file is there and holds one well-formed RSA PRIVATE KEY block.
WellFormedPrivateKey(file) ==
    /\ file.present
    /\ file.bytes.block = "RSA PRIVATE KEY"
    /\ file.bytes.derValid

AuthorityCertificateFile == disk.files[DefaultRootCertificateFileName]
AuthorityPrivateKeyFile == disk.files[DefaultRootPrivateKeyFileName]
LeafCertificateFile == disk.files[DefaultLeafCertificateFileName]
LeafPrivateKeyFile == disk.files[DefaultLeafPrivateKeyFileName]

\* Both CA files are there and parse.
AuthorityOnDisk ==
    /\ disk.directory
    /\ WellFormedCertificate(AuthorityCertificateFile)
    /\ WellFormedPrivateKey(AuthorityPrivateKeyFile)

\* Both leaf files are there and parse.
LeafOnDisk ==
    /\ disk.directory
    /\ WellFormedCertificate(LeafCertificateFile)
    /\ WellFormedPrivateKey(LeafPrivateKeyFile)

\* Both files of the pair the latest call is about were there and parsed
\* when it started.
FoundPair ==
    /\ WellFormedCertificate(lastCall.before.certificate)
    /\ WellFormedPrivateKey(lastCall.before.privateKey)

FoundCertificate == lastCall.before.certificate.bytes.der

EnsureReturned == lastCall.operation = "ensure" /\ Returned(lastCall)

IssueReturned == lastCall.operation = "issue" /\ Returned(lastCall)

\* The step is a call of EnsureCertificateAuthority, or of
\* IssueServerCertificate (the record of the call is compared first: a step
\* of another operation is told apart without evaluating the call).
EnsureCall == lastCall'.operation = "ensure" /\ Ensure

IssueCall == lastCall'.operation = "issue" /\ Issue

\* The hosts of a certificate as the request's hosts are compared with them.
CertificateHosts(certificate) ==
    { ToLower(name) : name \in certificate.dnsNames } \cup certificate.ipAddresses

RequestedHosts(hosts) ==
    { IF IsIPLiteral(host) THEN host ELSE ToLower(host) : host \in Range(hosts) }

\* The leaf verifies against the certificate of the authority.
ChainsTo(certificate, authority) ==
    certificate.signedBy = authority.certificate.publicKey

----------------------------------------------------------------------------
(* EnsureCertificateAuthority.                                             *)

\* C1: a call that finds both CA files present and parseable and the
\* certificate outside its renewal window returns the material on disk and
\* creates no directory, writes no file and reads nothing from the random source.
C1_ReuseLeavesTheWorldUntouched ==
    [][ ( /\ AuthorityOnDisk
          /\ currentTime + configuration.authority.renewal
                < AuthorityCertificateFile.bytes.der.notAfter
          /\ EnsureCall )
        => ( /\ lastCall'.outcome = "reused"
             /\ lastCall'.material.certificate = AuthorityCertificateFile.bytes.der
             /\ lastCall'.material.privateKey = AuthorityPrivateKeyFile.bytes.der
             /\ lastCall'.steps = <<>>
             /\ disk' = disk
             /\ randomDraws' = randomDraws ) ]_vars

C1_Witness ==
    /\ EnsureReturned /\ lastCall.outcome = "reused"
    /\ FoundPair
    /\ AuthorityCertificateFile = lastCall.before.certificate
    /\ AuthorityPrivateKeyFile = lastCall.before.privateKey
    /\ lastCall.material.certificate = FoundCertificate
    /\ currentTime + configuration.authority.renewal < FoundCertificate.notAfter

\* C2: when a successful call follows a successful call and the certificate
\* the first one returned is still outside its renewal window, the second
\* call returns a certificate with the same serial number.
C2_SuccessiveCallsSameSerial ==
    [][ ( /\ heldAuthority # NoMaterial
          /\ currentTime + configuration.authority.renewal
                < heldAuthority.certificate.notAfter
          /\ EnsureCall
          /\ Returned(lastCall') )
        => lastCall'.material.certificate.serialNumber
              = heldAuthority.certificate.serialNumber ]_vars

C2_Witness ==
    /\ EnsureReturned /\ lastCall.outcome = "reused"
    /\ currentTime > lastCall.material.certificate.notBefore
    /\ currentTime + configuration.authority.renewal < lastCall.material.certificate.notAfter
    /\ heldAuthority.certificate.serialNumber = FoundCertificate.serialNumber

\* C3: a call that finds a CA certificate inside its renewal window
\* (now + renewalWindow >= NotAfter) never reuses it; when the call returns,
\* it returns a new key pair and a certificate with a different serial
\* number, and both files hold the new material.
C3_RotatesInsideRenewalWindow ==
    [][ ( /\ AuthorityOnDisk
          /\ currentTime + configuration.authority.renewal
                >= AuthorityCertificateFile.bytes.der.notAfter
          /\ EnsureCall )
        => ( /\ lastCall'.outcome # "reused"
             /\ Returned(lastCall') =>
                   /\ lastCall'.material.certificate.serialNumber
                         # AuthorityCertificateFile.bytes.der.serialNumber
                   /\ lastCall'.material.certificate.publicKey
                         # AuthorityCertificateFile.bytes.der.publicKey
                   /\ lastCall'.material.privateKey # AuthorityPrivateKeyFile.bytes.der
                   /\ lastCall'.material.privateKey = lastCall'.material.certificate.publicKey
                   /\ AuthorityOnDisk'
                   /\ AuthorityCertificateFile'.bytes.der = lastCall'.material.certificate
                   /\ AuthorityPrivateKeyFile'.bytes.der = lastCall'.material.privateKey ) ]_vars

C3_Witness ==
    /\ EnsureReturned /\ lastCall.outcome = "generated"
    /\ FoundPair
    /\ lastCall.material.certificate.notBefore + configuration.authority.renewal
          >= FoundCertificate.notAfter
    /\ lastCall.material.certificate.serialNumber # FoundCertificate.serialNumber
    /\ AuthorityOnDisk
    /\ AuthorityCertificateFile.bytes.der = lastCall.material.certificate

\* C4: every successful call returns a certificate and a private key of the
\* same key pair.
C4_ReturnedKeyPairMatches ==
    EnsureReturned
        => lastCall.material.certificate.publicKey = lastCall.material.privateKey

\* C5: the CA certificate file and the CA key file are both absent, or both
\* present and of the same generation.
C5_AuthorityFilesCoLocated ==
    \/ ~AuthorityCertificateFile.present /\ ~AuthorityPrivateKeyFile.present
    \/ /\ AuthorityOnDisk
       /\ AuthorityCertificateFile.bytes.der.publicKey = AuthorityPrivateKeyFile.bytes.der

----------------------------------------------------------------------------
(* IssueServerCertificate.                                                 *)

\* The leaf on disk parses, carries exactly the hosts of the request and is
\* outside its renewal window at the time of the call.
LeafReusableFor(hosts) ==
    /\ LeafOnDisk
    /\ CertificateHosts(LeafCertificateFile.bytes.der) = RequestedHosts(hosts)
    /\ currentTime + configuration.leaf.renewal < LeafCertificateFile.bytes.der.notAfter

\* The request carries the hosts of the certificate and exactly one more.
AddsOneHost(certificate, hosts) ==
    \E added \in RequestedHosts(hosts) \ CertificateHosts(certificate) :
        RequestedHosts(hosts) = CertificateHosts(certificate) \cup { added }

\* C6: every certificate a successful IssueServerCertificate call returns is
\* signed by the CA material passed in that call, whatever calls and clock
\* advances came before.
C6_LeafSignedByPassedAuthority ==
    IssueReturned
        => lastCall.material.certificate.signedBy = lastCall.authority.privateKey

\* C7: a call with a non-empty host list reuses the leaf on disk exactly when
\* both leaf files parse, the hosts of the certificate are the hosts of the
\* request and now + renewalWindow < NotAfter; it then returns the certificate
\* on disk (same serial number), and otherwise a call that returns has issued
\* a certificate with a new serial number.
C7_ReusesExactlyWhenAllThreeHold ==
    [][ ( IssueCall /\ lastCall'.hosts # <<>> )
        => IF LeafReusableFor(lastCall'.hosts)
           THEN /\ lastCall'.outcome = "reused"
                /\ lastCall'.material.certificate = LeafCertificateFile.bytes.der
                /\ lastCall'.material.certificate.serialNumber
                      = LeafCertificateFile.bytes.der.serialNumber
           ELSE /\ lastCall'.outcome # "reused"
                /\ Returned(lastCall') =>
                      /\ lastCall'.outcome = "generated"
                      /\ WellFormedCertificate(LeafCertificateFile) =>
                            lastCall'.material.certificate.serialNumber
                               # LeafCertificateFile.bytes.der.serialNumber ]_vars

C7_Witness ==
    /\ IssueReturned /\ lastCall.outcome = "reused"
    /\ FoundPair
    /\ CertificateHosts(FoundCertificate) = RequestedHosts(lastCall.hosts)
    /\ lastCall.material.certificate.serialNumber = FoundCertificate.serialNumber
    /\ currentTime > FoundCertificate.notBefore
    /\ currentTime + configuration.leaf.renewal < FoundCertificate.notAfter

\* C8: a call that reuses the leaf on disk leaves the leaf certificate file,
\* the leaf key file and every other file as they were: it writes nothing,
\* removes nothing and takes no step.
C8_ReuseWritesNoFile ==
    [][ ( /\ IssueCall
          /\ lastCall'.hosts # <<>>
          /\ LeafReusableFor(lastCall'.hosts) \/ lastCall'.outcome = "reused" )
        => ( /\ disk' = disk
             /\ lastCall'.steps = <<>>
             /\ randomDraws' = randomDraws ) ]_vars

C8_Witness ==
    /\ IssueReturned /\ lastCall.outcome = "reused"
    /\ LeafOnDisk
    /\ LeafCertificateFile = lastCall.before.certificate
    /\ LeafPrivateKeyFile = lastCall.before.privateKey
    /\ lastCall.steps = <<>>

\* C9: a call whose host set adds one entry to the host set of the leaf on
\* disk returns a certificate with a different serial number whose hosts are
\* the enlarged set and which verifies against the certificate of the CA
\* supplied to the call.
C9_AddedHostIssuesNewLeafOfSuppliedAuthority ==
    [][ ( /\ LeafOnDisk
          /\ IssueCall
          /\ AddsOneHost(LeafCertificateFile.bytes.der, lastCall'.hosts)
          /\ Returned(lastCall') )
        => ( /\ lastCall'.outcome = "generated"
             /\ lastCall'.material.certificate.serialNumber
                   # LeafCertificateFile.bytes.der.serialNumber
             /\ CertificateHosts(lastCall'.material.certificate)
                   = RequestedHosts(lastCall'.hosts)
             /\ ChainsTo(lastCall'.material.certificate, heldAuthority) ) ]_vars

\* C10: a call that finds a leaf with the hosts of the request inside its
\* renewal window (now >= NotAfter - renewalWindow) returns a certificate with
\* a different serial number, NotBefore = now and
\* NotAfter = now + leaf validity.
C10_RotatesLeafNearingExpiry ==
    [][ ( /\ LeafOnDisk
          /\ currentTime + configuration.leaf.renewal
                >= LeafCertificateFile.bytes.der.notAfter
          /\ IssueCall
          /\ CertificateHosts(LeafCertificateFile.bytes.der) = RequestedHosts(lastCall'.hosts)
          /\ Returned(lastCall') )
        => ( /\ lastCall'.outcome = "generated"
             /\ lastCall'.material.certificate.serialNumber
                   # LeafCertificateFile.bytes.der.serialNumber
             /\ lastCall'.material.certificate.notBefore = currentTime
             /\ lastCall'.material.certificate.notAfter
                   = currentTime + configuration.leaf.validity ) ]_vars

C10_Witness ==
    /\ IssueReturned /\ lastCall.outcome = "generated"
    /\ FoundPair
    /\ CertificateHosts(FoundCertificate) = RequestedHosts(lastCall.hosts)
    /\ lastCall.material.certificate.notBefore + configuration.leaf.renewal
          >= FoundCertificate.notAfter
    /\ lastCall.material.certificate.notBefore > FoundCertificate.notBefore
    /\ lastCall.material.certificate.serialNumber # FoundCertificate.serialNumber

\* C11: the DNS names and IP addresses of the certificate a successful
\* IssueServerCertificate call returns, by reuse or by new issuance, are the
\* hosts of the request: none is missing, none is extra (host names compared
\* without regard to letter case).
C11_ReturnedHostsAreRequestedHosts ==
    IssueReturned
        => /\ CertificateHosts(lastCall.material.certificate) = RequestedHosts(lastCall.hosts)
           /\ lastCall.material.certificate.ipAddresses
                 = { CanonicalIP(host) : host \in { h \in Range(lastCall.hosts) : IsIPLiteral(h) } }

C11_Witness ==
    /\ IssueReturned /\ lastCall.outcome = "reused"
    /\ lastCall.material.certificate.dnsNames # {}
    /\ lastCall.material.certificate.ipAddresses # {}
    /\ Cardinality(Range(lastCall.hosts)) = 2

\* C12: when a successful IssueServerCertificate call is followed, with no
\* clock advance and no other call in between, by a request whose host list
\* differs only in order, repeated entries or letter case of host names, the
\* second call reuses the certificate: same serial number.
C12_PresentationDoesNotRotate ==
    [][ ( /\ lastCall.operation = "issue"
          /\ Returned(lastCall)
          /\ lastCall.at = currentTime
          /\ lastCall'.operation = "issue"
          /\ IssuePresented
          /\ RequestedHosts(lastCall'.hosts) = RequestedHosts(lastCall.hosts) )
        => ( /\ lastCall'.outcome = "reused"
             /\ lastCall'.material.certificate.serialNumber
                   = lastCall.material.certificate.serialNumber ) ]_vars

C12_Witness ==
    /\ IssueReturned /\ lastCall.outcome = "reused"
    /\ lastCall.hosts = <<"127.0.0.1", "LOCALHOST", "127.0.0.1">>
    /\ FoundCertificate.dnsNames = { "localhost" }
    /\ lastCall.material.certificate.serialNumber = FoundCertificate.serialNumber

----------------------------------------------------------------------------
(* Empty host sets.                                                        *)

\* Every entry of the list is empty or white space only.
NoHostInList(input) == \A i \in DOMAIN input : input[i] \in { "", " ", "  " }

\* C13: the issuer rejects a request without hosts with an error, having
\* taken no step: the random source and the files are as they were; and
\* prepareHTTPSContext rejects a host list that holds no host once trimmed
\* with "at least one host must be specified", touching nothing, so that
\* runHTTPSServe only ever calls EnsureCertificateAuthority and
\* IssueServerCertificate with at least one host in its context.
C13_EmptyHostSetRejectedBeforeAnyWork ==
    /\ [][ ( /\ lastCall'.operation = "issue"
             /\ lastCall'.hosts = <<>>
             /\ IssueDirectly \/ ServeIssue )
           => ( /\ lastCall'.outcome = "error"
                /\ lastCall'.steps = <<>>
                /\ randomDraws' = randomDraws
                /\ disk' = disk ) ]_vars
    /\ [][ ( /\ command'.stage \in { "failed", "prepared" }
             /\ PrepareHTTPSContext
             /\ NoHostInList(command'.input) )
           => ( /\ command'.stage = "failed"
                /\ command'.err = "at least one host must be specified"
                /\ UNCHANGED <<disk, randomDraws, heldAuthority, lastCall>> ) ]_vars
    /\ [][ ( ServeEnsure \/ ServeIssue )
           => ( /\ command.hosts # <<>>
                /\ ~NoHostInList(command.hosts) ) ]_vars

C13_Witness ==
    /\ lastCall.operation = "issue"
    /\ lastCall.hosts = <<>>
    /\ lastCall.outcome = "error"
    /\ lastCall.steps = <<>>
    /\ command.stage = "failed"
    /\ command.err = "at least one host must be specified"
    /\ command.input = <<" ", "">>

----------------------------------------------------------------------------
(* Unparseable files.                                                      *)

\* The file is there and does not parse.
Unparseable(file, blockType) ==
    /\ file.present
    /\ \/ file.bytes.block # blockType
       \/ ~file.bytes.derValid

\* The errors of the steps that make new material.
RegenerationErrors ==
    { "create certificate directory", "generate private key", "create certificate",
      "write certificate", "write private key" }

\* The call made new material, or failed at a step of making it.
Regenerated(call) ==
    \/ call.outcome = "generated"
    \/ /\ call.outcome = "error"
       /\ call.steps # <<>>
       /\ call.err \in RegenerationErrors

\* C14: a call of EnsureCertificateAuthority, or of IssueServerCertificate
\* with hosts, that finds its certificate file or its key file unparseable
\* never reuses and never fails for that: it makes new material and, when no
\* step of making it fails, returns it and leaves both files parseable; when
\* it fails, its error is the error of the step of regeneration that failed.
C14_UnparseableFilesAreRegenerated ==
    /\ [][ ( /\ \/ Unparseable(AuthorityCertificateFile, "CERTIFICATE")
                \/ Unparseable(AuthorityPrivateKeyFile, "RSA PRIVATE KEY")
             /\ lastCall'.operation = "ensure"
             /\ EnsureOverDamage )
           => ( /\ Regenerated(lastCall')
                /\ Returned(lastCall') => AuthorityOnDisk' ) ]_vars
    /\ [][ ( /\ \/ Unparseable(LeafCertificateFile, "CERTIFICATE")
                \/ Unparseable(LeafPrivateKeyFile, "RSA PRIVATE KEY")
             /\ lastCall'.operation = "issue"
             /\ IssueOverDamage )
           => ( /\ Regenerated(lastCall')
                /\ Returned(lastCall') => LeafOnDisk' ) ]_vars

C14_Witness ==
    /\ lastCall.operation = "issue"
    /\ lastCall.outcome = "generated"
    /\ lastCall.before.certificate.present
    /\ lastCall.before.certificate.bytes.block = "TRUSTED CERTIFICATE"
    /\ lastCall.before.privateKey.present
    /\ lastCall.before.privateKey.bytes.block = "RSA PRIVATE KEY"
    /\ ~lastCall.before.privateKey.bytes.derValid
    /\ LeafOnDisk

----------------------------------------------------------------------------
(* Lifetimes and permissions of the CA material.                           *)

\* C15: the certificate a successful EnsureCertificateAuthority call returns
\* has, at the time of the call, exactly the validity duration left when the
\* call generated it and more than the renewal window left when the call
\* reused it: never the renewal window or less.
C15_RemainingLifetimeOfAuthority ==
    [][ ( EnsureCall /\ Returned(lastCall') )
        => LET remaining == lastCall'.material.certificate.notAfter - currentTime
           IN  /\ lastCall'.outcome = "generated"
                     => remaining = configuration.authority.validity
               /\ lastCall'.outcome = "reused"
                     => remaining > configuration.authority.renewal
               /\ remaining > configuration.authority.renewal ]_vars

C15_Witness ==
    /\ EnsureReturned /\ lastCall.outcome = "reused"
    /\ lastCall.at > lastCall.material.certificate.notBefore
    /\ lastCall.material.certificate.notAfter - lastCall.at
          = configuration.authority.renewal + 1

\* C16: a successful EnsureCertificateAuthority call on a directory that
\* holds neither CA file creates a certificate with NotBefore = now and
\* NotAfter = now + validity, and leaves a certificate file and a key file
\* with the configured certificate and key permission bits.
C16_FirstCallCreatesAuthority ==
    [][ ( /\ ~AuthorityCertificateFile.present
          /\ ~AuthorityPrivateKeyFile.present
          /\ EnsureCall
          /\ Returned(lastCall') )
        => ( /\ lastCall'.outcome = "generated"
             /\ lastCall'.material.certificate.notBefore = currentTime
             /\ lastCall'.material.certificate.notAfter
                   = currentTime + configuration.authority.validity
             /\ AuthorityOnDisk'
             /\ AuthorityCertificateFile'.bytes.der = lastCall'.material.certificate
             /\ AuthorityPrivateKeyFile'.bytes.der = lastCall'.material.privateKey
             /\ AuthorityCertificateFile'.permissions = CertificateFilePermissions
             /\ AuthorityPrivateKeyFile'.permissions = PrivateKeyFilePermissions ) ]_vars

C16_Witness ==
    /\ EnsureReturned /\ lastCall.outcome = "generated"
    /\ ~lastCall.before.certificate.present
    /\ ~lastCall.before.privateKey.present
    /\ lastCall.at > 0
    /\ lastCall.material.certificate.notBefore = lastCall.at
    /\ AuthorityOnDisk
    /\ AuthorityCertificateFile.permissions = CertificateFilePermissions
    /\ AuthorityPrivateKeyFile.permissions = PrivateKeyFilePermissions

----------------------------------------------------------------------------
(* Failures of EnsureCertificateAuthority.                                 *)

\* The steps of making new CA material, in the order they are taken, and the
\* error a failure of each is reported as.
AuthoritySteps == <<"mkdir", "keygen", "sign", "write_certificate", "write_private_key">>

AuthorityStepErrors ==
    <<"create certificate directory", "generate private key", "create certificate",
      "write certificate", "write private key">>

\* The operation whose failure the error of each step wraps.
AuthorityStepCauses ==
    <<"os.MkdirAll", "rsa.GenerateKey", "x509.CreateCertificate", "os.WriteFile", "os.WriteFile">>

\* The files a call of EnsureCertificateAuthority would write when every
\* step is taken once: the key is the next draw of the random source, the
\* serial number of the certificate the one after.
CertificateOfOneAttempt ==
    EncodeCertificatePEM(
        [ serialNumber |-> randomDraws + 2, publicKey |-> randomDraws + 1,
          signedBy |-> randomDraws + 1,
          notBefore |-> currentTime,
          notAfter |-> currentTime + configuration.authority.validity,
          isCA |-> TRUE, dnsNames |-> {}, ipAddresses |-> {} ])

PrivateKeyOfOneAttempt == EncodePrivateKeyPEM(randomDraws + 1)

\* The file is as the call found it, or holds the part of `data` a write
\* that failed got through.
AsFoundOrPartOf(path, data) ==
    \/ disk'.files[path] = disk.files[path]
    \/ /\ disk'.files[path].present
       /\ disk'.files[path].bytes = Truncated(data)

\* What a failed call leaves behind when it stopped at its k-th step and
\* took each step before it once: the steps after the k-th left no trace.
StoppedAtStep(k) ==
    /\ disk'.directory = (disk.directory \/ k > 1)
    /\ randomDraws' = IF k <= 2 THEN randomDraws ELSE randomDraws + 2
    /\ IF k <= 3
       THEN disk'.files = disk.files
       ELSE /\ \A path \in Paths \ { DefaultRootCertificateFileName,
                                     DefaultRootPrivateKeyFileName } :
                    disk'.files[path] = disk.files[path]
            /\ IF k = 4
               THEN /\ AsFoundOrPartOf(DefaultRootCertificateFileName, CertificateOfOneAttempt)
                    /\ disk'.files[DefaultRootPrivateKeyFileName]
                            = disk.files[DefaultRootPrivateKeyFileName]
               ELSE /\ disk'.files[DefaultRootCertificateFileName].present
                    /\ disk'.files[DefaultRootCertificateFileName].bytes = CertificateOfOneAttempt
                    /\ AsFoundOrPartOf(DefaultRootPrivateKeyFileName, PrivateKeyOfOneAttempt)

\* C17: a call of EnsureCertificateAuthority that fails at the creation of
\* the directory, the generation of the key, the signature or a write ends
\* there: it returns no material, its error is a CertificateAuthorityError
\* that wraps the failure of that step, and what it leaves on disk and what
\* it took from the random source are what one attempt of each step up to
\* the failed one leaves and takes; no step was taken a second time.
C17_FailedStepEndsTheCall ==
    [][ (EnsureCall /\ lastCall'.outcome = "error")
        => ( /\ lastCall'.material = NoMaterial
             /\ heldAuthority' = NoMaterial
             /\ lastCall'.kind = CertificateAuthorityError
             /\ \E k \in DOMAIN AuthoritySteps :
                    /\ lastCall'.steps = SubSeq(AuthoritySteps, 1, k)
                    /\ lastCall'.err = AuthorityStepErrors[k]
                    /\ lastCall'.cause = AuthorityStepCauses[k]
                    /\ StoppedAtStep(k) ) ]_vars

\* The write of the private key failed part-way: the certificate of the one
\* attempt is on disk whole, the call returned the wrapped write failure.
C17_Witness ==
    /\ lastCall.operation = "ensure"
    /\ lastCall.outcome = "error"
    /\ lastCall.kind = CertificateAuthorityError
    /\ lastCall.err = "write private key"
    /\ lastCall.cause = "os.WriteFile"
    /\ lastCall.steps = AuthoritySteps
    /\ WellFormedCertificate(AuthorityCertificateFile)
    /\ AuthorityCertificateFile.bytes.der.notBefore = lastCall.at
    /\ AuthorityCertificateFile.bytes.der.serialNumber = randomDraws
    /\ AuthorityPrivateKeyFile.present
    /\ ~WellFormedPrivateKey(AuthorityPrivateKeyFile)
    /\ heldAuthority = NoMaterial

----------------------------------------------------------------------------
(* The trust store installers (package truststore) and the command runner  *)
(* they are given.                                                         *)

\* The number of Install and Uninstall calls made on one installer.
MaxCalls == 3

commandNameSecurity == "security"
commandNameCertutil == "certutil"
commandNameUpdateCaCertificates == "update-ca-certificates"
commandNameTrust == "trust"

DefaultCertificateAuthorityCommonName == "ghttp Development CA"
linuxTrustedCertificatePath == "/usr/local/share/ca-certificates/ghttp-development-ca.crt"
DefaultMacOSKeychainPath == "/Library/Keychains/System.keychain"
DefaultWindowsCertificateStoreName == "Root"
DefaultLinuxCertificateFilePermissions == 420

\* runtime.GOOS: the three platforms with a factory and one without.
OperatingSystems == { "darwin", "linux", "windows", "freebsd" }

supportedFactories == { "darwin", "linux", "windows" }

\* truststore.Configuration, every field either unset (the zero value) or set.
TrustConfigurations ==
    [ CertificateCommonName : { "", DefaultCertificateAuthorityCommonName },
      MacOSKeychainPath : { "", "/tmp/test.keychain" },
      LinuxCertificateDestinationPath : { "", linuxTrustedCertificatePath },
      LinuxCertificateFilePermissions : { 0, DefaultLinuxCertificateFilePermissions },
      WindowsCertificateStoreName : { "", DefaultWindowsCertificateStoreName, "TestStore" } ]

\* The paths Install is called with: none, and the root certificate of the
\* certificate directory.
InstallPaths == { "", DefaultRootCertificateFileName }

\* CommandRunner.Run as the installers see it: the command is started (and
\* recorded) and the runner reports whether it failed.
Run(log, executable, arguments, fails) ==
    [ err |-> fails,
      executed |-> Append(log, [ executable |-> executable, arguments |-> arguments,
                                 privileged |-> FALSE ]) ]

\* CommandRunner.RunWithPrivileges: the same command, run with elevated
\* privileges.
RunWithPrivileges(log, executable, arguments, fails) ==
    [ err |-> fails,
      executed |-> Append(log, [ executable |-> executable, arguments |-> arguments,
                                 privileged |-> TRUE ]) ]

\* What the commands of one call return, in the order they are run.
RunnerFailures == [ 1..2 -> BOOLEAN ]

newMacOSInstaller(settings) ==
    IF settings.CertificateCommonName = ""
    THEN [ err |-> "macos installer requires certificate common name" ]
    ELSE [ err |-> "",
           installer |-> [ platform |-> "darwin",
                           configuration |->
                               [ settings EXCEPT !.MacOSKeychainPath =
                                   IF @ = "" THEN DefaultMacOSKeychainPath ELSE @ ] ] ]

newLinuxInstaller(settings) ==
    IF settings.LinuxCertificateDestinationPath = ""
    THEN [ err |-> "linux installer requires destination path" ]
    ELSE [ err |-> "",
           installer |-> [ platform |-> "linux",
                           configuration |->
                               [ settings EXCEPT !.LinuxCertificateFilePermissions =
                                   IF @ = 0 THEN DefaultLinuxCertificateFilePermissions ELSE @ ] ] ]

newWindowsInstaller(settings) ==
    IF settings.CertificateCommonName = ""
    THEN [ err |-> "windows installer requires certificate common name" ]
    ELSE [ err |-> "",
           installer |-> [ platform |-> "windows",
                           configuration |->
                               [ settings EXCEPT !.WindowsCertificateStoreName =
                                   IF @ = "" THEN DefaultWindowsCertificateStoreName ELSE @ ] ] ]

\* NewInstaller taking the Linux factory on a platform that has none.
NewInstallerDefaultingToLinux(goos, settings) ==
    CASE goos = "darwin" -> newMacOSInstaller(settings)
      [] goos = "windows" -> newWindowsInstaller(settings)
      [] OTHER -> newLinuxInstaller(settings)

NewInstaller(goos, settings) ==
    IF goos \notin supportedFactories
    THEN [ err |-> "unsupported operating system" ]
    ELSE CASE goos = "darwin" -> newMacOSInstaller(settings)
           [] goos = "linux" -> newLinuxInstaller(settings)
           [] goos = "windows" -> newWindowsInstaller(settings)

macOSInstallArguments(settings, certificatePath) ==
    <<"add-trusted-cert", "-d", "-r", "trustRoot", "-k", settings.MacOSKeychainPath,
      certificatePath>>

\* The arguments of the removal naming the system keychain whatever keychain
\* was configured.
macOSUninstallArgumentsSystemKeychain(settings) ==
    <<"delete-certificate", "-c", settings.CertificateCommonName, DefaultMacOSKeychainPath>>

macOSUninstallArguments(settings) ==
    <<"delete-certificate", "-c", settings.CertificateCommonName, settings.MacOSKeychainPath>>

windowsInstallArguments(settings, certificatePath) ==
    <<"-addstore", "-f", settings.WindowsCertificateStoreName, certificatePath>>

\* The arguments of the removal naming the Root store whatever store was
\* configured.
windowsUninstallArgumentsRootStore(settings) ==
    <<"-delstore", DefaultWindowsCertificateStoreName, settings.CertificateCommonName>>

windowsUninstallArguments(settings) ==
    <<"-delstore", settings.WindowsCertificateStoreName, settings.CertificateCommonName>>

\* The file at the Linux destination path, seen through the FileSystem.
DestinationFileSystem(settings, file) ==
    [ directory |-> TRUE,
      files |-> [ path \in { settings.LinuxCertificateDestinationPath } |-> file ] ]

DestinationFile(settings, fileSystem) ==
    fileSystem.files[settings.LinuxCertificateDestinationPath]

\* macOSInstaller.Install running the command a second time when the first
\* run fails.
macOSInstallRetrying(settings, log, certificatePath, failures) ==
    IF certificatePath = ""
    THEN [ err |-> "certificate path is required", causes |-> <<>>, executed |-> log ]
    ELSE LET ran == Run(log, commandNameSecurity,
                        macOSInstallArguments(settings, certificatePath), failures[1])
             again == Run(ran.executed, commandNameSecurity,
                          macOSInstallArguments(settings, certificatePath), failures[2])
         IN  IF ~ran.err
             THEN [ err |-> "", causes |-> <<>>, executed |-> ran.executed ]
             ELSE IF ~again.err
             THEN [ err |-> "", causes |-> <<>>, executed |-> again.executed ]
             ELSE [ err |-> "install certificate in macos keychain",
                    causes |-> <<commandNameSecurity>>, executed |-> again.executed ]

\* macOSInstaller.Install.  `causes` are the errors the returned error wraps:
\* the name of the executable for an error of the runner, the name of the
\* operation for an error of the file system.
macOSInstall(settings, log, certificatePath, failures) ==
    IF certificatePath = ""
    THEN [ err |-> "certificate path is required", causes |-> <<>>, executed |-> log ]
    ELSE LET ran == Run(log, commandNameSecurity,
                        macOSInstallArguments(settings, certificatePath), failures[1])
         IN  IF ran.err
             THEN [ err |-> "install certificate in macos keychain",
                    causes |-> <<commandNameSecurity>>, executed |-> ran.executed ]
             ELSE [ err |-> "", causes |-> <<>>, executed |-> ran.executed ]

\* macOSInstaller.Uninstall
macOSUninstall(settings, log, failures) ==
    LET ran == Run(log, commandNameSecurity, macOSUninstallArguments(settings), failures[1])
    IN  IF ran.err
        THEN [ err |-> "remove certificate from macos keychain",
               causes |-> <<commandNameSecurity>>, executed |-> ran.executed ]
        ELSE [ err |-> "", causes |-> <<>>, executed |-> ran.executed ]

\* windowsInstaller.Install handing whatever path it is given to certutil.
windowsInstallUnchecked(settings, log, certificatePath, failures) ==
    LET ran == Run(log, commandNameCertutil,
                   windowsInstallArguments(settings, certificatePath), failures[1])
    IN  IF ran.err
        THEN [ err |-> "install certificate in windows store",
               causes |-> <<commandNameCertutil>>, executed |-> ran.executed ]
        ELSE [ err |-> "", causes |-> <<>>, executed |-> ran.executed ]

\* windowsInstaller.Install
windowsInstall(settings, log, certificatePath, failures) ==
    IF certificatePath = ""
    THEN [ err |-> "certificate path is required", causes |-> <<>>, executed |-> log ]
    ELSE LET ran == Run(log, commandNameCertutil,
                        windowsInstallArguments(settings, certificatePath), failures[1])
         IN  IF ran.err
             THEN [ err |-> "install certificate in windows store",
                    causes |-> <<commandNameCertutil>>, executed |-> ran.executed ]
             ELSE [ err |-> "", causes |-> <<>>, executed |-> ran.executed ]

\* windowsInstaller.Uninstall
windowsUninstall(settings, log, failures) ==
    LET ran == Run(log, commandNameCertutil, windowsUninstallArguments(settings), failures[1])
    IN  IF ran.err
        THEN [ err |-> "remove certificate from windows store",
               causes |-> <<commandNameCertutil>>, executed |-> ran.executed ]
        ELSE [ err |-> "", causes |-> <<>>, executed |-> ran.executed ]

\* linuxInstaller.Install taking the copy away again when the trust store
\* could not be refreshed.
linuxInstallRollingBack(settings, fileSystem, file, log, certificatePath, writeResult, failures) ==
    IF certificatePath = ""
    THEN [ err |-> "certificate path is required", causes |-> <<>>, executed |-> log,
           file |-> file ]
    ELSE LET read == ReadFile(fileSystem, certificatePath)
         IN  IF read.err
             THEN [ err |-> "read certificate for linux install", causes |-> <<"ReadFile">>,
                    executed |-> log, file |-> file ]
             ELSE LET written == WriteFile(DestinationFileSystem(settings, file),
                                           settings.LinuxCertificateDestinationPath, read.data,
                                           settings.LinuxCertificateFilePermissions, writeResult)
                      copied == DestinationFile(settings, written.disk)
                      refresh == Run(log, commandNameUpdateCaCertificates, <<>>, failures[1])
                      fallback == Run(refresh.executed, commandNameTrust,
                                      <<"anchor", settings.LinuxCertificateDestinationPath>>,
                                      failures[2])
                  IN  IF written.err
                      THEN [ err |-> "write linux trust store certificate",
                             causes |-> <<"WriteFile">>, executed |-> log, file |-> copied ]
                      ELSE IF ~refresh.err
                      THEN [ err |-> "", causes |-> <<>>, executed |-> refresh.executed,
                             file |-> copied ]
                      ELSE IF ~fallback.err
                      THEN [ err |-> "", causes |-> <<>>, executed |-> fallback.executed,
                             file |-> copied ]
                      ELSE [ err |-> "update linux trust store",
                             causes |-> <<commandNameUpdateCaCertificates, commandNameTrust>>,
                             executed |-> fallback.executed, file |-> NoFile ]

\* linuxInstaller.Install
linuxInstall(settings, fileSystem, file, log, certificatePath, writeResult, failures) ==
    IF certificatePath = ""
    THEN [ err |-> "certificate path is required", causes |-> <<>>, executed |-> log,
           file |-> file ]
    ELSE LET read == ReadFile(fileSystem, certificatePath)
         IN  IF read.err
             THEN [ err |-> "read certificate for linux install", causes |-> <<"ReadFile">>,
                    executed |-> log, file |-> file ]
             ELSE LET written == WriteFile(DestinationFileSystem(settings, file),
                                           settings.LinuxCertificateDestinationPath, read.data,
                                           settings.LinuxCertificateFilePermissions, writeResult)
                      copied == DestinationFile(settings, written.disk)
                      refresh == Run(log, commandNameUpdateCaCertificates, <<>>, failures[1])
                      fallback == Run(refresh.executed, commandNameTrust,
                                      <<"anchor", settings.LinuxCertificateDestinationPath>>,
                                      failures[2])
                  IN  IF written.err
                      THEN [ err |-> "write linux trust store certificate",
                             causes |-> <<"WriteFile">>, executed |-> log, file |-> copied ]
                      ELSE IF ~refresh.err
                      THEN [ err |-> "", causes |-> <<>>, executed |-> refresh.executed,
                             file |-> copied ]
                      ELSE IF ~fallback.err
                      THEN [ err |-> "", causes |-> <<>>, executed |-> fallback.executed,
                             file |-> copied ]
                      ELSE [ err |-> "update linux trust store",
                             causes |-> <<commandNameUpdateCaCertificates, commandNameTrust>>,
                             executed |-> fallback.executed, file |-> copied ]

\* linuxInstaller.Uninstall giving up when the refresh command fails.
linuxUninstallWithoutFallback(settings, file, log, removeSucceeds, failures) ==
    LET removed == Remove(DestinationFileSystem(settings, file),
                          settings.LinuxCertificateDestinationPath, removeSucceeds)
        left == DestinationFile(settings, removed.disk)
        refresh == Run(log, commandNameUpdateCaCertificates, <<>>, failures[1])
    IN  IF removed.err
        THEN [ err |-> "remove linux trust store certificate", causes |-> <<"Remove">>,
               executed |-> log, file |-> left ]
        ELSE IF ~refresh.err
        THEN [ err |-> "", causes |-> <<>>, executed |-> refresh.executed, file |-> left ]
        ELSE [ err |-> "update linux trust store removal",
               causes |-> <<commandNameUpdateCaCertificates>>,
               executed |-> refresh.executed, file |-> left ]

\* linuxInstaller.Uninstall
linuxUninstall(settings, file, log, removeSucceeds, failures) ==
    LET removed == Remove(DestinationFileSystem(settings, file),
                          settings.LinuxCertificateDestinationPath, removeSucceeds)
        left == DestinationFile(settings, removed.disk)
        refresh == Run(log, commandNameUpdateCaCertificates, <<>>, failures[1])
        fallback == Run(refresh.executed, commandNameTrust,
                        <<"anchor", "--remove", settings.LinuxCertificateDestinationPath>>,
                        failures[2])
    IN  IF removed.err
        THEN [ err |-> "remove linux trust store certificate", causes |-> <<"Remove">>,
               executed |-> log, file |-> left ]
        ELSE IF ~refresh.err
        THEN [ err |-> "", causes |-> <<>>, executed |-> refresh.executed, file |-> left ]
        ELSE IF ~fallback.err
        THEN [ err |-> "", causes |-> <<>>, executed |-> fallback.executed, file |-> left ]
        ELSE [ err |-> "update linux trust store removal",
               causes |-> <<commandNameUpdateCaCertificates, commandNameTrust>>,
               executed |-> fallback.executed, file |-> left ]

\* Installer.Install, dispatched on the variant NewInstaller chose.
InstallerInstall(chosen, fileSystem, file, log, certificatePath, writeResult, failures) ==
    CASE chosen.platform = "darwin" ->
             [ file |-> file ] @@ macOSInstall(chosen.configuration, log, certificatePath, failures)
      [] chosen.platform = "windows" ->
             [ file |-> file ] @@ windowsInstall(chosen.configuration, log, certificatePath, failures)
      [] chosen.platform = "linux" ->
             linuxInstall(chosen.configuration, fileSystem, file, log, certificatePath,
                          writeResult, failures)

\* Installer.Uninstall, dispatched on the variant NewInstaller chose.
InstallerUninstall(chosen, file, log, removeSucceeds, failures) ==
    CASE chosen.platform = "darwin" ->
             [ file |-> file ] @@ macOSUninstall(chosen.configuration, log, failures)
      [] chosen.platform = "windows" ->
             [ file |-> file ] @@ windowsUninstall(chosen.configuration, log, failures)
      [] chosen.platform = "linux" ->
             linuxUninstall(chosen.configuration, file, log, removeSucceeds, failures)

\* NewInstaller on some platform with some configuration; a failed
\* construction leaves no installer to call.  `given` and `goos` remember the
\* configuration the caller passed and the platform it ran on.
Construct ==
    /\ installer = NoInstaller
    /\ \E goos \in OperatingSystems, settings \in TrustConfigurations :
          \E made \in { NewInstaller(goos, settings) } :
              installer' = IF made.err = ""
                           THEN made.installer @@ [ given |-> settings, goos |-> goos ]
                           ELSE [ platform |-> "failed", goos |-> goos, err |-> made.err ]
    /\ UNCHANGED <<certificateVars, command, executed, calls, trustStore, started, managers>>

\* What the runner returned for each command a call ran (TRUE: an error).
RunnerResults(before, after, failures) ==
    [ k \in 1..(Len(after) - Len(before)) |-> failures[k] ]

\* One call of Install; the calls log keeps its inputs, its error, the
\* positions of the commands it ran and what the runner returned for each.
Install ==
    /\ installer.platform \in supportedFactories
    /\ Len(calls) < MaxCalls
    /\ \E certificatePath \in InstallPaths, writeResult \in WriteFileResults,
          failures \in RunnerFailures :
          \E done \in { InstallerInstall(installer, disk, trustStore, executed,
                                         certificatePath, writeResult, failures) } :
              /\ executed' = done.executed
              /\ trustStore' = done.file
              /\ calls' = Append(calls, [ operation |-> "install", path |-> certificatePath,
                                          err |-> done.err, causes |-> done.causes,
                                          first |-> Len(executed) + 1,
                                          last |-> Len(done.executed),
                                          results |-> RunnerResults(executed, done.executed,
                                                                    failures) ])
    /\ UNCHANGED <<certificateVars, command, installer, started, managers>>

\* One call of Uninstall.
Uninstall ==
    /\ installer.platform \in supportedFactories
    /\ Len(calls) < MaxCalls
    /\ \E removeSucceeds \in BOOLEAN, failures \in RunnerFailures :
          \E done \in { InstallerUninstall(installer, trustStore, executed,
                                           removeSucceeds, failures) } :
              /\ executed' = done.executed
              /\ trustStore' = done.file
              /\ calls' = Append(calls, [ operation |-> "uninstall", path |-> "",
                                          err |-> done.err, causes |-> done.causes,
                                          first |-> Len(executed) + 1,
                                          last |-> Len(done.executed),
                                          results |-> RunnerResults(executed, done.executed,
                                                                    failures) ])
    /\ UNCHANGED <<certificateVars, command, installer, started, managers>>

TrustNext == EnsureUnfailing \/ Construct \/ Install \/ Uninstall

TrustSpec == Init /\ [][TrustNext]_vars

----------------------------------------------------------------------------
(* Claims about the trust store installers.                                *)

\* The commands one logged call ran.
CommandsOf(call) == SubSeq(executed, call.first, call.last)

\* Positions in the log of a successful Install directly followed by a
\* successful Uninstall.
InstalledThenUninstalled ==
    { i \in 1..(Len(calls) - 1) :
        /\ calls[i].operation = "install" /\ calls[i].err = ""
        /\ calls[i + 1].operation = "uninstall" /\ calls[i + 1].err = "" }

\* C18: on the macOS installer a successful Install(path) followed by a
\* successful Uninstall runs exactly two commands, `security add-trusted-cert
\* ... path` and then `security delete-certificate ...`, and both name the
\* same keychain: the configured one, or the system keychain when none is
\* configured.
C18_MacOSRunsTwoSecurityCommands ==
    installer.platform = "darwin"
        => \A i \in InstalledThenUninstalled :
              LET commands == CommandsOf(calls[i]) \o CommandsOf(calls[i + 1])
                  keychain == IF installer.given.MacOSKeychainPath = ""
                              THEN DefaultMacOSKeychainPath
                              ELSE installer.given.MacOSKeychainPath
              IN  /\ Len(commands) = 2
                  /\ calls[i + 1].first = calls[i].last + 1
                  /\ commands[1].executable = commandNameSecurity
                  /\ commands[1].arguments[1] = "add-trusted-cert"
                  /\ commands[1].arguments[Len(commands[1].arguments)] = calls[i].path
                  /\ commands[2].executable = commandNameSecurity
                  /\ commands[2].arguments[1] = "delete-certificate"
                  /\ commands[1].arguments[6] = keychain
                  /\ commands[2].arguments[Len(commands[2].arguments)] = keychain

C18_Witness ==
    /\ installer.platform = "darwin"
    /\ installer.given.MacOSKeychainPath = "/tmp/test.keychain"
    /\ Len(calls) = 2
    /\ InstalledThenUninstalled = { 1 }
    /\ Len(executed) = 2
    /\ executed[2].arguments =
           <<"delete-certificate", "-c", DefaultCertificateAuthorityCommonName,
             "/tmp/test.keychain">>

\* C19: every command the macOS installer runs (the add-trusted-cert of
\* Install, the delete-certificate of Uninstall) is run with privileges.
C19_MacOSCommandsArePrivileged ==
    installer.platform = "darwin"
        => \A i \in DOMAIN executed : executed[i].privileged

\* C20: on the Windows installer a successful Install(path) followed by a
\* successful Uninstall runs exactly two commands, `certutil -addstore -f
\* store path` and then `certutil -delstore store commonName`, both naming the
\* configured store, or "Root" when none is configured.
C20_WindowsRunsTwoCertutilCommands ==
    installer.platform = "windows"
        => \A i \in InstalledThenUninstalled :
              LET commands == CommandsOf(calls[i]) \o CommandsOf(calls[i + 1])
                  store == IF installer.given.WindowsCertificateStoreName = ""
                           THEN "Root"
                           ELSE installer.given.WindowsCertificateStoreName
              IN  /\ Len(commands) = 2
                  /\ calls[i + 1].first = calls[i].last + 1
                  /\ commands[1].executable = commandNameCertutil
                  /\ commands[1].arguments = <<"-addstore", "-f", store, calls[i].path>>
                  /\ commands[2].executable = commandNameCertutil
                  /\ commands[2].arguments =
                         <<"-delstore", store, installer.given.CertificateCommonName>>

C20_Witness ==
    /\ installer.platform = "windows"
    /\ installer.given.WindowsCertificateStoreName = "TestStore"
    /\ Len(calls) = 3
    /\ InstalledThenUninstalled = { 2 }
    /\ calls[1].err # ""
    /\ executed[Len(executed)].arguments =
           <<"-delstore", "TestStore", DefaultCertificateAuthorityCommonName>>

\* The call the latest step of the installer made, when it made one.
CallMade == Len(calls') = Len(calls) + 1

LatestCall == calls'[Len(calls')]

\* C21: on the Linux installer a successful Install(source) leaves at the
\* destination path a file with exactly the bytes of the source certificate
\* file, and a successful Uninstall leaves no file there.
C21_LinuxCopiesThenRemoves ==
    [][ (installer.platform = "linux" /\ CallMade /\ LatestCall.err = "")
            => IF LatestCall.operation = "install"
               THEN /\ disk.files[LatestCall.path].present
                    /\ trustStore'.present
                    /\ trustStore'.bytes = disk.files[LatestCall.path].bytes
               ELSE trustStore' = NoFile ]_vars

C21_Witness ==
    /\ installer.platform = "linux"
    /\ Len(calls) = 2
    /\ InstalledThenUninstalled = { 1 }
    /\ WellFormedCertificate(disk.files[calls[1].path])
    /\ trustStore = NoFile

\* C22: on the Linux installer a call that reaches the refresh runs
\* `update-ca-certificates` first and the `trust anchor` fallback (with
\* `--remove` in Uninstall) if and only if the refresh returned an error; the
\* call succeeds when either command succeeds and fails only when both fail,
\* with an error that wraps the errors of both.
C22_LinuxRefreshWithFallback ==
    installer.platform = "linux"
        => \A i \in DOMAIN calls :
              LET call == calls[i]
                  commands == CommandsOf(call)
                  destination == installer.given.LinuxCertificateDestinationPath
              IN  IF commands = <<>>
                  THEN call.err # "" /\ call.causes \in { <<>>, <<"ReadFile">>, <<"WriteFile">>, <<"Remove">> }
                  ELSE /\ commands[1].executable = "update-ca-certificates"
                       /\ commands[1].arguments = <<>>
                       /\ Len(commands) <= 2
                       /\ (Len(commands) = 2) = call.results[1]
                       /\ Len(commands) = 2
                            => /\ commands[2].executable = "trust"
                               /\ commands[2].arguments =
                                     IF call.operation = "install"
                                     THEN <<"anchor", destination>>
                                     ELSE <<"anchor", "--remove", destination>>
                       /\ (call.err = "") = (\E k \in DOMAIN call.results : ~call.results[k])
                       /\ call.err # ""
                            => /\ call.results = <<TRUE, TRUE>>
                               /\ call.causes = <<"update-ca-certificates", "trust">>
                               /\ call.err = IF call.operation = "install"
                                             THEN "update linux trust store"
                                             ELSE "update linux trust store removal"

C22_Witness ==
    /\ installer.platform = "linux"
    /\ Len(calls) = 3
    /\ calls[1].operation = "install" /\ calls[1].results = <<TRUE, FALSE>> /\ calls[1].err = ""
    /\ calls[2].operation = "uninstall" /\ calls[2].results = <<TRUE, TRUE>>
    /\ calls[2].causes = <<"update-ca-certificates", "trust">>
    /\ calls[3].operation = "uninstall" /\ calls[3].results = <<FALSE>> /\ calls[3].err = ""
    /\ Len(executed) = 5

\* C23: no installer retries.  Whatever the commands return, one Install or
\* Uninstall call runs no command twice: at most one command on macOS and on
\* Windows, at most two on Linux (the refresh, then the fallback).
C23_NoInstallerRetries ==
    installer.platform \in supportedFactories
        => \A i \in DOMAIN calls :
              LET commands == CommandsOf(calls[i])
              IN  /\ \A j, k \in DOMAIN commands :
                        ( /\ commands[j].executable = commands[k].executable
                          /\ commands[j].arguments = commands[k].arguments ) => j = k
                  /\ Len(commands) <= IF installer.platform = "linux" THEN 2 ELSE 1
                  /\ Len(commands) = 2
                        => /\ commands[1].executable = "update-ca-certificates"
                           /\ commands[2].executable = "trust"
                  /\ calls[i].first = (IF i = 1 THEN 1 ELSE calls[i - 1].last + 1)
                  /\ i = Len(calls) => calls[i].last = Len(executed)

C23_Witness ==
    /\ installer.platform = "darwin"
    /\ Len(calls) = 3
    /\ calls[1].operation = "install" /\ calls[1].results = <<TRUE>>
    /\ calls[2].operation = "uninstall" /\ calls[2].results = <<TRUE>>
    /\ calls[3].operation = "install" /\ calls[3].results = <<TRUE>>
    /\ Len(executed) = 3

\* C29: NewInstaller takes the variant registered for the running platform;
\* on a platform with no registered variant it returns the error
\* "unsupported operating system" and no installer, so that nothing is ever
\* run; an installer once made keeps its variant.
C29_VariantChosenOnceByPlatform ==
    /\ [](installer.platform \in { "darwin", "linux", "windows" }
            => installer.platform = installer.goos)
    /\ [](installer.platform = "failed"
            => /\ (installer.err = "unsupported operating system")
                     = (installer.goos \notin { "darwin", "linux", "windows" })
               /\ calls = <<>> /\ executed = <<>> /\ trustStore = NoFile)
    /\ [][installer # NoInstaller => installer' = installer]_vars

C29_Witness ==
    /\ installer.platform = "failed"
    /\ installer.goos = "freebsd"
    /\ installer.err = "unsupported operating system"
    /\ lastCall.operation = "ensure"

----------------------------------------------------------------------------
(* Classification of the requested hosts.                                  *)

\* C30: in the certificate a successful IssueServerCertificate returns,
\* every requested host that is an IPv4 or IPv6 literal is among the IP
\* addresses and not among the DNS names, and every other requested host is
\* among the DNS names (whatever its letter case) and not among the IP
\* addresses.
C30_HostsAreClassified ==
    IssueReturned
        => LET certificate == lastCall.material.certificate
               names == { ToLower(name) : name \in certificate.dnsNames }
           IN  \A host \in Range(lastCall.hosts) :
                  IF host \in { "127.0.0.1", "::1" }
                  THEN host \in certificate.ipAddresses /\ host \notin names
                  ELSE ToLower(host) \in names /\ host \notin certificate.ipAddresses

C30_Witness ==
    /\ IssueReturned
    /\ lastCall.outcome = "generated"
    /\ lastCall.hosts = <<"localhost", "::1">>
    /\ lastCall.material.certificate.dnsNames = { "localhost" }
    /\ lastCall.material.certificate.ipAddresses = { "::1" }

----------------------------------------------------------------------------
(* ExecutableRunner, the CommandRunner of the operating system, called     *)
(* with contexts that are or are not cancelled.                            *)

\* How an external process ends once it runs, or that its executable is not
\* found.
ProcessExits == { "zero", "nonzero", "not_found" }

RunnerExecutables == { commandNameSecurity, commandNameUpdateCaCertificates }

RunnerArguments == { <<>>, <<"anchor", linuxTrustedCertificatePath>> }

\* ExecutableRunner.Run never looking at its context.
ExecutableRunnerRunIgnoringContext(processes, cancelled, executable, arguments, exit) ==
    IF exit = "not_found"
    THEN [ err |-> "execute", processes |-> processes ]
    ELSE [ err |-> IF exit = "zero" THEN "" ELSE "execute",
           processes |-> Append(processes, [ executable |-> executable,
                                             arguments |-> arguments ]) ]

\* ExecutableRunner.Run: exec.CommandContext(ctx, ...).Run() starts no process
\* when the executable is not found or the context is already done, and
\* otherwise reports how the process ended.
ExecutableRunnerRun(processes, cancelled, executable, arguments, exit) ==
    IF exit = "not_found" \/ cancelled
    THEN [ err |-> "execute", processes |-> processes ]
    ELSE [ err |-> IF exit = "zero" THEN "" ELSE "execute",
           processes |-> Append(processes, [ executable |-> executable,
                                             arguments |-> arguments ]) ]

\* ExecutableRunner.RunWithPrivileges
ExecutableRunnerRunWithPrivileges(goos, processes, cancelled, executable, arguments, exit) ==
    IF goos \in { "darwin", "linux" }
    THEN ExecutableRunnerRun(processes, cancelled, "sudo", <<executable>> \o arguments, exit)
    ELSE [ err |-> "privileged execution not supported", processes |-> processes ]

RunCalled ==
    /\ Len(calls) < MaxCalls
    /\ \E cancelled \in BOOLEAN, executable \in RunnerExecutables,
          arguments \in RunnerArguments, exit \in ProcessExits :
          \E ran \in { ExecutableRunnerRun(started, cancelled, executable, arguments, exit) } :
              /\ started' = ran.processes
              /\ calls' = Append(calls, [ operation |-> "Run", cancelled |-> cancelled,
                                          executable |-> executable, err |-> ran.err,
                                          first |-> Len(started) + 1,
                                          last |-> Len(ran.processes) ])
    /\ UNCHANGED <<certificateVars, command, installer, executed, trustStore, managers>>

RunWithPrivilegesCalled ==
    /\ Len(calls) < MaxCalls
    /\ \E goos \in OperatingSystems, cancelled \in BOOLEAN, executable \in RunnerExecutables,
          arguments \in RunnerArguments, exit \in ProcessExits :
          \E ran \in { ExecutableRunnerRunWithPrivileges(goos, started, cancelled, executable,
                                                         arguments, exit) } :
              /\ started' = ran.processes
              /\ calls' = Append(calls, [ operation |-> "RunWithPrivileges",
                                          cancelled |-> cancelled,
                                          executable |-> executable, err |-> ran.err,
                                          first |-> Len(started) + 1,
                                          last |-> Len(ran.processes) ])
    /\ UNCHANGED <<certificateVars, command, installer, executed, trustStore, managers>>

RunnerNext == RunCalled \/ RunWithPrivilegesCalled

RunnerSpec == Init /\ [][RunnerNext]_vars

\* C26: Run and RunWithPrivileges called with a context that is already
\* cancelled return an error and start no process.
C26_CancelledContextStartsNoProcess ==
    [][ (Len(calls') = Len(calls) + 1 /\ calls'[Len(calls')].cancelled)
            => /\ calls'[Len(calls')].err # ""
               /\ started' = started ]_vars

C26_Witness ==
    /\ Len(calls) = 3
    /\ calls[1].operation = "RunWithPrivileges" /\ ~calls[1].cancelled /\ calls[1].err = ""
    /\ calls[2].operation = "RunWithPrivileges" /\ calls[2].cancelled /\ calls[2].err = "execute"
    /\ calls[3].operation = "Run" /\ calls[3].cancelled
    /\ Len(started) = 1
    /\ started[1].executable = "sudo"

----------------------------------------------------------------------------
(* Two processes running EnsureCertificateAuthority against one directory. *)
(* Each takes the steps of the manager in order; nothing orders the steps  *)
(* of one process against those of the other.                              *)

Racers == { "first", "second" }

Other(racer) == IF racer = "first" THEN "second" ELSE "first"

\* What a manager returns after it has written its files: what it generated,
\* read back from the directory.
ReturnedMaterialReadBack(generated, fileSystem) ==
    [ certificate |-> fileSystem.files[DefaultRootCertificateFileName].bytes.der,
      privateKey |-> fileSystem.files[DefaultRootPrivateKeyFileName].bytes.der ]

\* What a manager returns after it has written its files: the material it
\* holds in memory.
ReturnedMaterial(generated, fileSystem) == generated

\* The authority a manager makes at `now` from its random source.
GeneratedAuthority(draws, now, settings) ==
    [ certificate |->
          [ serialNumber |-> draws + 2, publicKey |-> draws + 1, signedBy |-> draws + 1,
            notBefore |-> now, notAfter |-> now + settings.validity,
            isCA |-> TRUE, dnsNames |-> {}, ipAddresses |-> {} ],
      privateKey |-> draws + 1 ]

AdvanceBeforeRace == managers = NoManagers /\ Advance

EnsureBeforeRace == managers = NoManagers /\ EnsureUnfailing

\* Two processes are started on the directory as it is.
RaceStarts ==
    /\ managers = NoManagers
    /\ managers' = [ racing |-> TRUE,
                     of |-> [ racer \in Racers |->
                                [ pc |-> "load", outcome |-> "none",
                                  material |-> NoMaterial ] ] ]
    /\ UNCHANGED <<certificateVars, command, installer, executed, calls, trustStore, started>>

\* The manager reads the two files and returns them when they can be reused.
ManagerLoads(racer) ==
    /\ managers.racing
    /\ managers.of[racer].pc = "load"
    /\ \E loaded \in { LoadMaterial(disk, DefaultRootCertificateFileName,
                                    DefaultRootPrivateKeyFileName) } :
          IF loaded.ok /\ OutsideRenewalWindow(loaded.material.certificate, Now,
                                               configuration.authority)
          THEN managers' = [ managers EXCEPT !.of[racer] =
                               [ pc |-> "returned", outcome |-> "reused",
                                 material |-> loaded.material ] ]
          ELSE managers' = [ managers EXCEPT !.of[racer].pc = "generate" ]
    /\ UNCHANGED <<certificateVars, command, installer, executed, calls, trustStore, started>>

\* The manager creates the directory, generates the key and signs the
\* certificate.
ManagerGenerates(racer) ==
    /\ managers.racing
    /\ managers.of[racer].pc = "generate"
    /\ randomDraws + 2 <= 2 * MaxGenerations
    /\ disk' = EnsureDirectory(disk, TRUE).disk
    /\ randomDraws' = randomDraws + 2
    /\ managers' = [ managers EXCEPT !.of[racer] =
                       [ pc |-> "write_certificate", outcome |-> "none",
                         material |-> GeneratedAuthority(randomDraws, Now,
                                                         configuration.authority) ] ]
    /\ UNCHANGED <<currentTime, configuration, heldAuthority, lastCall>>
    /\ UNCHANGED <<command, installer, executed, calls, trustStore, started>>

ManagerWritesCertificate(racer) ==
    /\ managers.racing
    /\ managers.of[racer].pc = "write_certificate"
    /\ disk' = WriteFile(disk, DefaultRootCertificateFileName,
                         EncodeCertificatePEM(managers.of[racer].material.certificate),
                         CertificateFilePermissions, "ok").disk
    /\ managers' = [ managers EXCEPT !.of[racer].pc = "write_private_key" ]
    /\ UNCHANGED <<currentTime, randomDraws, configuration, heldAuthority, lastCall>>
    /\ UNCHANGED <<command, installer, executed, calls, trustStore, started>>

ManagerWritesPrivateKey(racer) ==
    /\ managers.racing
    /\ managers.of[racer].pc = "write_private_key"
    /\ \E written \in { WriteFile(disk, DefaultRootPrivateKeyFileName,
                                  EncodePrivateKeyPEM(managers.of[racer].material.privateKey),
                                  PrivateKeyFilePermissions, "ok").disk } :
          /\ disk' = written
          /\ managers' = [ managers EXCEPT !.of[racer] =
                             [ pc |-> "returned", outcome |-> "generated",
                               material |-> ReturnedMaterial(managers.of[racer].material,
                                                             written) ] ]
    /\ UNCHANGED <<currentTime, randomDraws, configuration, heldAuthority, lastCall>>
    /\ UNCHANGED <<command, installer, executed, calls, trustStore, started>>

ManagerSteps ==
    \E racer \in Racers :
        \/ ManagerLoads(racer)
        \/ ManagerGenerates(racer)
        \/ ManagerWritesCertificate(racer)
        \/ ManagerWritesPrivateKey(racer)

RaceNext == AdvanceBeforeRace \/ EnsureBeforeRace \/ RaceStarts \/ ManagerSteps

RaceSpec == Init /\ [][RaceNext]_vars

\* Both processes have returned.
BothReturned ==
    managers.racing /\ \A racer \in Racers : managers.of[racer].pc = "returned"

\* The directory holds a certificate and a key that parse and are not one
\* key pair.
MismatchOnDisk ==
    /\ AuthorityOnDisk
    /\ AuthorityCertificateFile.bytes.der.publicKey # AuthorityPrivateKeyFile.bytes.der

\* C27: nothing keeps the writes of two processes apart.  When both have
\* returned, each process that generated has returned its own certificate
\* with the key that belongs to it; and when the directory then holds a certificate and a key that do not
\* match, the certificate is the one of one process, the key the one of the
\* other, and a process returned material that differs from what the
\* directory holds.
C27_InterleavedWritesMismatch ==
    BothReturned
        => /\ \A racer \in Racers :
                managers.of[racer].outcome = "generated"
                    => managers.of[racer].material.certificate.publicKey
                          = managers.of[racer].material.privateKey
           /\ MismatchOnDisk
                => \E racer \in Racers :
                      /\ managers.of[racer].outcome = "generated"
                      /\ managers.of[Other(racer)].outcome = "generated"
                      /\ AuthorityCertificateFile.bytes.der
                            = managers.of[racer].material.certificate
                      /\ AuthorityPrivateKeyFile.bytes.der
                            = managers.of[Other(racer)].material.privateKey
                      /\ managers.of[racer].material.privateKey
                            # AuthorityPrivateKeyFile.bytes.der

C27_Witness ==
    /\ BothReturned
    /\ MismatchOnDisk
    /\ lastCall = NoCall
    /\ AuthorityCertificateFile.bytes.der = managers.of["second"].material.certificate
    /\ AuthorityPrivateKeyFile.bytes.der = managers.of["first"].material.privateKey

----------------------------------------------------------------------------
(* `ghttp --https`: serveWithDynamicHTTPS prepares the context, runs       *)
(* runHTTPSSetup (ensure the CA, install it in the trust store), serves    *)
(* as `ghttp https serve` does, and runs runHTTPSUninstall when serving    *)
(* has ended.                                                              *)

\* buildTrustStoreInstaller: the configuration the command gives NewInstaller.
ProductionTrustConfiguration ==
    [ CertificateCommonName |-> DefaultCertificateAuthorityCommonName,
      MacOSKeychainPath |-> "",
      LinuxCertificateDestinationPath |-> linuxTrustedCertificatePath,
      LinuxCertificateFilePermissions |-> DefaultLinuxCertificateFilePermissions,
      WindowsCertificateStoreName |-> "Root" ]

\* runHTTPSUninstall removing the files of the authority only.
removalTargetsOfTheAuthority ==
    <<DefaultRootCertificateFileName, DefaultRootPrivateKeyFileName>>

\* runHTTPSUninstall: the files it removes, in the order it removes them.
removalTargets ==
    <<DefaultRootCertificateFileName, DefaultRootPrivateKeyFileName,
      DefaultLeafCertificateFileName, DefaultLeafPrivateKeyFileName>>

\* Which removals the operating system lets succeed.
RemovalOutcomes == [ Paths -> BOOLEAN ]

\* runHTTPSSetup going on to the trust store whatever the manager returned.
SetupProceedsRegardless(outcome) == outcome = outcome

\* runHTTPSSetup returns when EnsureCertificateAuthority returned an error.
SetupProceeds(outcome) == outcome # "error"

\* The loop of runHTTPSUninstall over removalTargets from `index` on: every
\* target is tried, the failures are collected.
RECURSIVE RemoveTargets(_, _, _, _, _)
RemoveTargets(fileSystem, index, removable, attempted, failed) ==
    IF index > Len(removalTargets)
    THEN [ disk |-> fileSystem, attempted |-> attempted, failed |-> failed ]
    ELSE LET target == removalTargets[index]
             removed == Remove(fileSystem, target, removable[target])
         IN  RemoveTargets(removed.disk, index + 1, removable, Append(attempted, target),
                           IF removed.err THEN Append(failed, target) ELSE failed)

\* runHTTPSUninstall.  `errors` are the errors the returned error is made
\* of (none: nil); a failed removal is named by its path.
runHTTPSUninstall(goos, fileSystem, file, log, removeSucceeds, failures, removable) ==
    LET made == NewInstaller(goos, ProductionTrustConfiguration)
    IN  IF made.err # ""
        THEN [ errors |-> <<made.err>>, invoked |-> FALSE, uninstallErr |-> "",
               attempted |-> <<>>, disk |-> fileSystem, file |-> file, executed |-> log ]
        ELSE LET done == InstallerUninstall(made.installer, file, log, removeSucceeds, failures)
                 removals == RemoveTargets(fileSystem, 1, removable, <<>>, <<>>)
             IN  IF done.err # ""
                 THEN [ errors |-> <<"uninstall certificate authority">>, invoked |-> TRUE,
                        uninstallErr |-> done.err, attempted |-> <<>>,
                        disk |-> fileSystem, file |-> done.file, executed |-> done.executed ]
                 ELSE [ errors |-> removals.failed, invoked |-> TRUE, uninstallErr |-> "",
                        attempted |-> removals.attempted,
                        disk |-> removals.disk, file |-> done.file, executed |-> done.executed ]

NoTeardown == [ ran |-> FALSE ]

\* runHTTPSSetup has returned nil in this process.
SetupDone ==
    /\ installer.platform \in supportedFactories
    /\ calls # <<>>
    /\ calls[1].operation = "install" /\ calls[1].err = ""

\* runHTTPSSetup, called by serveWithDynamicHTTPS once the context is
\* prepared; an error of it is returned by serveWithDynamicHTTPS at once.
\* `wrote` remembers whether the manager wrote a file, `installed` whether
\* Install returned nil.
DynamicSetup ==
    /\ command.stage = "prepared"
    /\ installer = NoInstaller
    /\ \E fault \in ServeFaults : EnsureCalledWith(fault)
    /\ \E goos \in OperatingSystems, writeResult \in WriteFileResults,
          failures \in RunnerFailures :
          LET wrote == \E k \in DOMAIN lastCall'.steps : lastCall'.steps[k] = "write_certificate"
              returned(err, installed) ==
                  [ stage |-> "returned", errors |-> <<err>>, wrote |-> wrote,
                    installed |-> installed, teardown |-> NoTeardown ]
          IN  IF ~SetupProceeds(lastCall'.outcome)
              THEN /\ command' = returned("ensure certificate authority", FALSE)
                   /\ UNCHANGED <<installer, executed, calls, trustStore>>
              ELSE \E made \in { NewInstaller(goos, ProductionTrustConfiguration) } :
                      IF made.err # ""
                      THEN /\ command' = returned(made.err, FALSE)
                           /\ installer' = [ platform |-> "failed", goos |-> goos,
                                             err |-> made.err ]
                           /\ UNCHANGED <<executed, calls, trustStore>>
                      ELSE \E done \in { InstallerInstall(made.installer, disk', trustStore,
                                                          executed, DefaultRootCertificateFileName,
                                                          writeResult, failures) } :
                              /\ installer' = made.installer
                                                @@ [ given |-> ProductionTrustConfiguration,
                                                     goos |-> goos ]
                              /\ executed' = done.executed
                              /\ trustStore' = done.file
                              /\ calls' = Append(calls,
                                     [ operation |-> "install",
                                       path |-> DefaultRootCertificateFileName,
                                       err |-> done.err, causes |-> done.causes,
                                       first |-> Len(executed) + 1,
                                       last |-> Len(done.executed),
                                       results |-> RunnerResults(executed, done.executed,
                                                                 failures) ])
                              /\ command' =
                                    IF done.err # ""
                                    THEN returned("install certificate authority",
                                                  done.executed # executed)
                                    ELSE command
    /\ UNCHANGED <<started, managers>>

\* executeHTTPSServe: the manager and the issuer are called as in
\* runHTTPSServe, once runHTTPSSetup has returned nil.
DynamicServeEnsure == SetupDone /\ ServeEnsure

DynamicServeIssue == SetupDone /\ ServeIssue

\* How serving ends: on a signal (Serve returns nil) or on a failure of the
\* listener.
ServeEndings == { "signal", "listen" }

\* The rest of serveWithDynamicHTTPS: serving has ended or failed,
\* runHTTPSUninstall runs, and the errors of both are joined.
DynamicTeardown ==
    /\ SetupDone
    /\ command.stage \in { "failed", "serving" }
    /\ \E ending \in ServeEndings, removeSucceeds \in BOOLEAN, failures \in RunnerFailures,
          removable \in RemovalOutcomes :
          \E done \in { runHTTPSUninstall(installer.goos, disk, trustStore, executed,
                                          removeSucceeds, failures, removable) } :
              LET serveErrors ==
                      IF command.stage = "failed" THEN <<command.err>>
                      ELSE IF ending = "listen" THEN <<"serve">> ELSE <<>>
              IN  /\ command.stage = "failed" => ending = "listen"
                  /\ disk' = done.disk
                  /\ trustStore' = done.file
                  /\ executed' = done.executed
                  /\ calls' = Append(calls,
                         [ operation |-> "uninstall", path |-> "",
                           err |-> done.uninstallErr,
                           causes |-> IF done.uninstallErr = "" THEN <<>> ELSE <<"Uninstall">>,
                           first |-> Len(executed) + 1, last |-> Len(done.executed),
                           results |-> RunnerResults(executed, done.executed, failures) ])
                  /\ command' =
                        [ stage |-> "returned", errors |-> serveErrors \o done.errors,
                          wrote |-> TRUE, installed |-> TRUE,
                          teardown |-> [ ran |-> TRUE, serveErrors |-> serveErrors,
                                         errors |-> done.errors,
                                         uninstallFailed |-> done.uninstallErr # "",
                                         attempted |-> done.attempted,
                                         removable |-> removable,
                                         found |-> { path \in Paths : disk.files[path].present } ] ]
    /\ UNCHANGED <<currentTime, randomDraws, configuration, heldAuthority, lastCall>>
    /\ UNCHANGED <<installer, started, managers>>

\* serveWithDynamicHTTPS returning the error of prepareHTTPSContext.
DynamicReturns ==
    /\ command.stage = "failed"
    /\ installer = NoInstaller
    /\ command' = [ stage |-> "returned", errors |-> <<command.err>>, wrote |-> FALSE,
                    installed |-> FALSE, teardown |-> NoTeardown ]
    /\ UNCHANGED <<certificateVars, trustVars>>

DynamicNext ==
    \/ Advance
    \/ PrepareHTTPSContext
    \/ DynamicSetup
    \/ DynamicServeEnsure
    \/ DynamicServeIssue
    \/ DynamicTeardown
    \/ DynamicReturns

DynamicSpec == Init /\ [][DynamicNext]_vars

\* C24: runHTTPSUninstall tries every step whatever failed before: the
\* trust store Uninstall and then the removal of each of the four files;
\* and the error it returns names every step that failed.
C24_TeardownAttemptsEveryStep ==
    (command.stage = "returned" /\ command.teardown.ran)
        => LET teardown == command.teardown
           IN  /\ calls[Len(calls)].operation = "uninstall"
               /\ teardown.attempted = removalTargets
               /\ teardown.uninstallFailed
                    => \E k \in DOMAIN teardown.errors :
                          teardown.errors[k] = "uninstall certificate authority"
               /\ \A path \in teardown.found :
                    ~teardown.removable[path]
                        => \E k \in DOMAIN teardown.errors : teardown.errors[k] = path

\* C25: when serveWithDynamicHTTPS returns after the manager wrote CA files
\* or the installer ran, the trust store Uninstall has been called and no CA
\* or leaf file is left in the certificate directory, but for files whose
\* removal the operating system refused and the returned error names; and
\* when serving and teardown both failed the returned error holds both.
C25_CredentialsRemovedOnExit ==
    (command.stage = "returned" /\ (command.wrote \/ command.installed))
        => /\ \E i \in DOMAIN calls : calls[i].operation = "uninstall"
           /\ \A path \in Paths :
                disk.files[path].present
                    => \E k \in DOMAIN command.errors : command.errors[k] = path
           /\ command.teardown.ran
           /\ command.errors = command.teardown.serveErrors \o command.teardown.errors

\* The step is a call of the manager, or of the issuer.
ManagerCalled == lastCall' # lastCall /\ lastCall'.operation = "ensure"

IssuerCalled == lastCall' # lastCall /\ lastCall'.operation = "issue"

\* C28: the command calls IssueServerCertificate only right after a
\* successful EnsureCertificateAuthority and with the material that call
\* returned; when EnsureCertificateAuthority fails the trust store is not
\* touched, and from then on the process calls neither the manager nor the
\* issuer nor Install and never serves.
C28_NeverIssuesBeforeEnsuring ==
    /\ [][ IssuerCalled
             => /\ lastCall.operation = "ensure"
                /\ Returned(lastCall)
                /\ lastCall'.authority = lastCall.material
                /\ command.stage = "ensured" ]_vars
    /\ [][ (ManagerCalled /\ lastCall'.outcome = "error")
             => /\ calls' = calls /\ executed' = executed /\ trustStore' = trustStore
                /\ command'.stage \in { "failed", "returned" } ]_vars
    /\ [][ (command.stage = "failed" /\ command.err = "ensure certificate authority")
             => /\ lastCall'.operation = "ensure"
                /\ command'.stage \in { "failed", "returned" }
                /\ calls' # calls => calls'[Len(calls')].operation = "uninstall" ]_vars

C28_Witness ==
    /\ command.stage = "serving"
    /\ SetupDone
    /\ lastCall.operation = "issue"
    /\ lastCall.outcome = "generated"
    /\ lastCall.authority = heldAuthority
    /\ lastCall.authority.certificate.notBefore = 2
    /\ lastCall.material.certificate.signedBy = heldAuthority.privateKey

----------------------------------------------------------------------------
(* The Linux installer around its file, and Install without a path.        *)

\* C33: a Linux Install whose refresh fails (update-ca-certificates and
\* `trust anchor` both return an error, as they do under a cancelled
\* context) returns an error and leaves the certificate it copied at the
\* destination path.
C33_FailedRefreshKeepsTheCopy ==
    [][ ( /\ installer.platform = "linux"
          /\ CallMade
          /\ LatestCall.operation = "install"
          /\ LatestCall.results = <<TRUE, TRUE>> )
            => /\ LatestCall.err = "update linux trust store"
               /\ LatestCall.causes = <<"update-ca-certificates", "trust">>
               /\ trustStore'.present
               /\ trustStore'.bytes = disk.files[LatestCall.path].bytes ]_vars

C33_Witness ==
    /\ installer.platform = "linux"
    /\ Len(calls) = 1
    /\ calls[1].operation = "install"
    /\ calls[1].err = "update linux trust store"
    /\ Len(executed) = 2
    /\ trustStore.present
    /\ WellFormedCertificate(trustStore)
    /\ trustStore.bytes = disk.files[calls[1].path].bytes

\* C34: Linux Uninstall removes the destination file before it runs any
\* command.  When the removal fails it returns an error and runs nothing;
\* when the file is absent the removal counts as done and the refresh (with
\* its fallback) still runs, so that the call succeeds when the refresh
\* does; and when every command of a successful Install and the Uninstall
\* after it succeeded, the last command run is update-ca-certificates.
C34_LinuxUninstallRemovesFirst ==
    /\ [][ ( /\ installer.platform = "linux"
             /\ CallMade
             /\ LatestCall.operation = "uninstall" )
              => /\ trustStore'.present
                    => /\ trustStore' = trustStore
                       /\ LatestCall.err = "remove linux trust store certificate"
                       /\ executed' = executed
                 /\ executed' # executed => trustStore' = NoFile
                 /\ ~trustStore.present
                    => /\ trustStore' = NoFile
                       /\ LatestCall.last >= LatestCall.first
                       /\ executed'[LatestCall.first].executable = "update-ca-certificates"
                       /\ ~LatestCall.results[1] => LatestCall.err = "" ]_vars
    /\ [](installer.platform = "linux"
            => \A i \in InstalledThenUninstalled :
                  ( /\ \A k \in DOMAIN calls[i].results : ~calls[i].results[k]
                    /\ \A k \in DOMAIN calls[i + 1].results : ~calls[i + 1].results[k] )
                      => executed[calls[i + 1].last].executable = "update-ca-certificates")

C34_Witness ==
    /\ installer.platform = "linux"
    /\ Len(calls) = 3
    /\ calls[1].operation = "uninstall" /\ calls[1].err = "" /\ calls[1].results = <<FALSE>>
    /\ InstalledThenUninstalled = { 2 }
    /\ calls[3].results = <<FALSE>>
    /\ Len(executed) = 3
    /\ executed[3].executable = "update-ca-certificates"
    /\ trustStore = NoFile

\* C35: Install called with an empty certificate path returns the error
\* "certificate path is required" on every variant and does nothing else:
\* no command is run and no file is written.
C35_EmptyPathRejectedBeforeAnyEffect ==
    [][ ( /\ installer.platform \in { "darwin", "linux", "windows" }
          /\ CallMade
          /\ LatestCall.operation = "install"
          /\ LatestCall.path = "" )
            => /\ LatestCall.err = "certificate path is required"
               /\ LatestCall.causes = <<>>
               /\ executed' = executed
               /\ trustStore' = trustStore
               /\ disk' = disk ]_vars

C35_Witness ==
    /\ installer.platform = "linux"
    /\ Len(calls) = 2
    /\ calls[1].operation = "install" /\ calls[1].err = "" /\ calls[1].path = "ca.pem"
    /\ calls[2].operation = "install" /\ calls[2].path = ""
    /\ calls[2].err = "certificate path is required"
    /\ Len(executed) = 1
    /\ trustStore.present

----------------------------------------------------------------------------
(* sanitizeHosts as a function of the host list it is given.               *)

MaxHosts == 3

\* The texts a configured host may be: blank ones, a name with and without
\* surrounding blanks, and an address.
HostTexts == { "", " ", " localhost", "localhost ", " localhost ", "localhost", "127.0.0.1" }

HostListsUpTo(length) == UNION { [ 1..k -> HostTexts ] : k \in 0..length }

SanitizeInit ==
    /\ currentTime = 0
    /\ disk = EmptyDisk
    /\ randomDraws = 0
    /\ configuration \in [ authority : AuthorityConfigurations, leaf : LeafConfigurations ]
    /\ heldAuthority = NoMaterial
    /\ lastCall = NoCall
    /\ command \in { [ stage |-> "given", hosts |-> hosts ] : hosts \in HostListsUpTo(MaxHosts) }
    /\ installer = NoInstaller
    /\ executed = <<>>
    /\ calls = <<>>
    /\ trustStore = NoFile
    /\ started = <<>>
    /\ managers = NoManagers

\* sanitizeHosts called on the list the command holds; a list that came out
\* of it may be handed to it again.
SanitizeHostsCalled ==
    /\ command.stage \in { "given", "sanitized" }
    /\ command.stage = "sanitized" => command.hosts # command.input
    /\ command' = [ stage |-> "sanitized", input |-> command.hosts,
                    hosts |-> sanitizeHosts(command.hosts) ]
    /\ UNCHANGED <<certificateVars, trustVars>>

SanitizeNext == SanitizeHostsCalled

SanitizeSpec == SanitizeInit /\ [][SanitizeNext]_vars

\* The place of the first entry of `hosts` that is `host` once trimmed.
FirstOccurrence(hosts, host) ==
    CHOOSE j \in 1..Len(hosts) :
        /\ TrimSpace(hosts[j]) = host
        /\ \A k \in 1..(j - 1) : TrimSpace(hosts[k]) # host

\* C38: sanitizeHosts returns the hosts trimmed, without the blank ones and
\* without repetitions, in the order in which each first occurs: no entry of
\* the result is empty, no two are equal, each is the trimmed form of an
\* entry of the input, every entry of the input that is not blank is in the
\* result once trimmed, and sanitizing the result gives the result.
C38_SanitizeHostsTrimsAndDeduplicates ==
    command.stage = "sanitized"
      => LET given == command.input
             result == command.hosts
         IN  /\ \A i \in 1..Len(result) : result[i] # "" /\ TrimSpace(result[i]) = result[i]
             /\ \A i, j \in 1..Len(result) : i # j => result[i] # result[j]
             /\ \A i \in 1..Len(result) : \E j \in 1..Len(given) : result[i] = TrimSpace(given[j])
             /\ \A j \in 1..Len(given) :
                    TrimSpace(given[j]) # ""
                      => \E i \in 1..Len(result) : result[i] = TrimSpace(given[j])
             /\ \A i, j \in 1..Len(result) :
                    i < j => FirstOccurrence(given, result[i]) < FirstOccurrence(given, result[j])
             /\ sanitizeHosts(result) = result

C38_Witness ==
    /\ command.stage = "sanitized"
    /\ command.input = <<"127.0.0.1", " ", "localhost ">>
    /\ command.hosts = <<"127.0.0.1", "localhost">>

----------------------------------------------------------------------------
(* `ghttp https uninstall` run again and again on one certificate          *)
(* directory, between runs of the manager and the issuer and deletions by  *)
(* hand.                                                                   *)

MaxRuns == 2

\* A file of the certificate directory that is none of the removal targets.
OtherFileName == "notes.txt"

OtherFile == [ present |-> TRUE, bytes |-> <<"notes">>, permissions |-> 420 ]

UninstallInit ==
    /\ currentTime = 0
    /\ disk = [ directory |-> TRUE,
                files |-> [ path \in Paths \cup { OtherFileName } |->
                                IF path = OtherFileName THEN OtherFile ELSE NoFile ] ]
    /\ randomDraws = 0
    /\ configuration \in [ authority : AuthorityConfigurations, leaf : LeafConfigurations ]
    /\ heldAuthority = NoMaterial
    /\ lastCall = NoCall
    /\ command = [ stage |-> "idle", runs |-> 0 ]
    /\ installer \in { [ platform |-> "none", goos |-> goos ] : goos \in OperatingSystems }
    /\ executed = <<>>
    /\ calls = <<>>
    /\ trustStore = NoFile
    /\ started = <<>>
    /\ managers = NoManagers

\* IssueServerCertificate for localhost.
IssueForLocalhost ==
    /\ heldAuthority # NoMaterial
    /\ IssueCalledWith(<<"localhost">>, "none")
    /\ UNCHANGED <<command, trustVars>>

\* One of the four files deleted by hand.
DeletedByHand ==
    /\ \E path \in Paths :
          /\ disk.files[path].present
          /\ disk' = Remove(disk, path, TRUE).disk
    /\ UNCHANGED <<currentTime, randomDraws, configuration, heldAuthority, lastCall>>
    /\ UNCHANGED <<command, trustVars>>

\* One run of runHTTPSUninstall.
UninstallCommand ==
    /\ command.runs < MaxRuns
    /\ \E removeSucceeds \in BOOLEAN, failures \in RunnerFailures,
          removable \in { outcome \in RemovalOutcomes :
                            \A path \in Paths : ~disk.files[path].present => outcome[path] } :
          \E done \in { runHTTPSUninstall(installer.goos, disk, trustStore, executed,
                                          removeSucceeds, failures, removable) } :
              /\ disk' = done.disk
              /\ trustStore' = done.file
              /\ executed' = done.executed
              /\ command' = [ stage |-> "uninstalled", runs |-> command.runs + 1,
                              errors |-> done.errors, invoked |-> done.invoked,
                              uninstallErr |-> done.uninstallErr,
                              attempted |-> done.attempted,
                              refused |-> { path \in Paths : /\ disk.files[path].present
                                                             /\ ~removable[path] },
                              found |-> { path \in Paths : disk.files[path].present } ]
    /\ UNCHANGED <<currentTime, randomDraws, configuration, heldAuthority, lastCall>>
    /\ UNCHANGED <<installer, calls, started, managers>>

\* The directory is filled and thinned out before the first run; the runs
\* follow one another.
BeforeTheRuns == command.runs = 0

EnsureBeforeTheRuns == BeforeTheRuns /\ EnsureUnfailing

IssueBeforeTheRuns == BeforeTheRuns /\ IssueForLocalhost

DeletedBeforeTheRuns == BeforeTheRuns /\ DeletedByHand

UninstallNext ==
    EnsureBeforeTheRuns \/ IssueBeforeTheRuns \/ DeletedBeforeTheRuns \/ UninstallCommand

UninstallSpec == UninstallInit /\ [][UninstallNext]_vars

\* A run of runHTTPSUninstall in which the trust store Uninstall succeeded.
UninstallRan ==
    /\ command'.stage = "uninstalled"
    /\ command'.runs = command.runs + 1
    /\ command'.invoked
    /\ command'.uninstallErr = ""

\* C36: runHTTPSUninstall is idempotent on the certificate directory.  When
\* the trust store Uninstall succeeded, the run tries each of the four
\* files; a file that is absent is never an error; the errors returned are
\* exactly the removals the operating system refused, so that a run on a
\* directory holding all, some or none of the four files returns no error
\* and leaves none of them, and so does a run after it; and no other file
\* of the directory is ever removed.
C36_UninstallCommandIsIdempotent ==
    /\ [][ UninstallRan
            => LET found == command'.found
                   refused == command'.refused
               IN  /\ command'.attempted = removalTargets
                   /\ Range(command'.errors) = refused
                   /\ \A path \in Paths : disk'.files[path].present <=> path \in refused
                   /\ refused = {}
                        => /\ command'.errors = <<>>
                           /\ \A path \in Paths : ~disk'.files[path].present
                   /\ found = {} => command'.errors = <<>> /\ disk' = disk
                   /\ disk'.files[OtherFileName] = disk.files[OtherFileName] ]_vars
    /\ [](disk.files[OtherFileName] = OtherFile)

\* A second run, on a directory of which the first run removed all four
\* files, has returned no error.
C36_Witness ==
    /\ command.stage = "uninstalled"
    /\ command.runs = 2
    /\ command.invoked /\ command.uninstallErr = ""
    /\ command.found = {}
    /\ command.errors = <<>>
    /\ randomDraws = 4
    /\ \A path \in Paths : ~disk.files[path].present
    /\ disk.files[OtherFileName].present

\* A run on a directory holding some of the four files only.
C36_WitnessOfPartialDirectory ==
    /\ command.stage = "uninstalled"
    /\ command.invoked /\ command.uninstallErr = ""
    /\ command.found = { DefaultRootPrivateKeyFileName, DefaultLeafCertificateFileName }
    /\ command.errors = <<>>
    /\ \A path \in Paths : ~disk.files[path].present

----------------------------------------------------------------------------
(* prepareServeConfiguration, the PreRunE of the serving commands.         *)

defaultServePort == "8000"

loggingTypeConsole == "CONSOLE"

loggingTypeJSON == "JSON"

defaultLoggingType == loggingTypeConsole

\* strings.ToUpper on the protocol and logging type values.
ToUpper(text) ==
    IF text = "http/1.0" THEN "HTTP/1.0"
    ELSE IF text = "json" THEN "JSON"
    ELSE text

\* strconv.Atoi on the port values; `err` for a text that is no number.
Atoi(text) ==
    IF text = "8000" THEN [ err |-> FALSE, number |-> 8000 ]
    ELSE IF text = "8080" THEN [ err |-> FALSE, number |-> 8080 ]
    ELSE IF text = "0" THEN [ err |-> FALSE, number |-> 0 ]
    ELSE IF text = "65536" THEN [ err |-> FALSE, number |-> 65536 ]
    ELSE [ err |-> TRUE, number |-> 0 ]

\* What the configuration manager, the arguments and the file system hold
\* when the command is run.
ServeSettings ==
    [ directory : { "directory", "missing", "file" },
      protocol : { "HTTP/1.1", "http/1.0", "HTTP/2" },
      port : { "", "8080", "0", "65536", "abc" },
      certificate : { "", " ", "cert.pem" },
      key : { "", " ", "key.pem" },
      https : BOOLEAN,
      logging : { "", "json", "XML" },
      certificateExists : BOOLEAN,
      keyExists : BOOLEAN ]

NoServeConfiguration == [ stored |-> FALSE ]

\* The checks of the TLS settings without the one on the https flag.
tlsSettingsErrorAllowingHTTPSWithFiles(tlsCertificatePath, tlsKeyPath, https, allowTLSFiles) ==
    IF ~allowTLSFiles /\ (tlsCertificatePath # "" \/ tlsKeyPath # "")
    THEN "tls certificate flags are not supported for this command"
    ELSE IF (tlsCertificatePath = "") # (tlsKeyPath = "")
    THEN "tls certificate and key must be provided together"
    ELSE ""

\* prepareServeConfiguration: the checks of the TLS settings against one
\* another, the https flag and the command.
tlsSettingsError(tlsCertificatePath, tlsKeyPath, https, allowTLSFiles) ==
    LET enableDynamicHTTPS == IF ~allowTLSFiles THEN FALSE ELSE https
    IN  IF ~allowTLSFiles /\ (tlsCertificatePath # "" \/ tlsKeyPath # "")
        THEN "tls certificate flags are not supported for this command"
        ELSE IF (tlsCertificatePath = "") # (tlsKeyPath = "")
        THEN "tls certificate and key must be provided together"
        ELSE IF enableDynamicHTTPS /\ (tlsCertificatePath # "" \/ tlsKeyPath # "")
        THEN "cannot combine https flag with tls certificate flags"
        ELSE ""

\* prepareServeConfiguration: the error it returns ("": nil) and the value
\* it stores in the context of the command.
prepareServeConfiguration(given, allowTLSFiles) ==
    LET rejected(err) == [ err |-> err, context |-> NoServeConfiguration ]
        protocolValue == ToUpper(TrimSpace(given.protocol))
        portValue == IF TrimSpace(given.port) = "" THEN defaultServePort
                     ELSE TrimSpace(given.port)
        portNumber == Atoi(portValue)
        tlsCertificatePath == TrimSpace(given.certificate)
        tlsKeyPath == TrimSpace(given.key)
        loggingTypeValue == IF ToUpper(TrimSpace(given.logging)) = "" THEN defaultLoggingType
                            ELSE ToUpper(TrimSpace(given.logging))
        tlsErr == tlsSettingsError(tlsCertificatePath, tlsKeyPath, given.https, allowTLSFiles)
    IN  IF given.directory = "missing" THEN rejected("stat directory")
        ELSE IF given.directory = "file" THEN rejected("path is not a directory")
        ELSE IF protocolValue \notin { "HTTP/1.0", "HTTP/1.1" }
        THEN rejected("unsupported protocol")
        ELSE IF portNumber.err \/ portNumber.number <= 0 \/ portNumber.number > 65535
        THEN rejected("invalid port")
        ELSE IF loggingTypeValue \notin { loggingTypeConsole, loggingTypeJSON }
        THEN rejected("unsupported logging type")
        ELSE IF tlsErr # "" THEN rejected(tlsErr)
        ELSE IF tlsCertificatePath # "" /\ ~given.certificateExists
        THEN rejected("stat tls certificate")
        ELSE IF tlsCertificatePath # "" /\ ~given.keyExists
        THEN rejected("stat tls private key")
        ELSE [ err |-> "",
               context |-> [ stored |-> TRUE,
                             Port |-> portValue,
                             ProtocolVersion |-> protocolValue,
                             TLSCertificatePath |-> tlsCertificatePath,
                             TLSPrivateKeyPath |-> tlsKeyPath,
                             EnableDynamicHTTPS |-> allowTLSFiles /\ given.https,
                             LoggingType |-> loggingTypeValue ] ]

\* prepareHTTPSContext: the error it returns ("": nil) and the hosts it
\* stores in the context of the command.
prepareHTTPSContext(input, directoryValue) ==
    LET hosts == sanitizeHosts(input)
    IN  IF Len(hosts) = 0
        THEN [ err |-> "at least one host must be specified", hosts |-> <<>> ]
        ELSE IF TrimSpace(directoryValue) = ""
        THEN [ err |-> "certificate directory is not configured", hosts |-> <<>> ]
        ELSE [ err |-> "", hosts |-> hosts ]

\* PreRunE of `ghttp` (TLS files allowed): prepareServeConfiguration; and of
\* `ghttp https serve` (not allowed): prepareServeConfiguration and, when it
\* returned nil, prepareHTTPSContext.  `prepareErr` is the error of the
\* first, `err` the error PreRunE returns.
PreRunE ==
    /\ command.stage = "idle"
    /\ \E given \in ServeSettings, allowTLSFiles \in BOOLEAN,
          input \in ConfiguredHostLists, directoryValue \in ConfiguredDirectories :
          \E prepared \in { prepareServeConfiguration(given, allowTLSFiles) } :
              IF allowTLSFiles \/ prepared.err # ""
              THEN command' = [ stage |-> IF prepared.err = "" THEN "prepared" ELSE "failed",
                                given |-> given, allowTLSFiles |-> allowTLSFiles,
                                prepareErr |-> prepared.err, err |-> prepared.err,
                                context |-> prepared.context, hosts |-> <<>> ]
              ELSE \E https \in { prepareHTTPSContext(input, directoryValue) } :
                      command' = [ stage |-> IF https.err = "" THEN "prepared" ELSE "failed",
                                   given |-> given, allowTLSFiles |-> allowTLSFiles,
                                   prepareErr |-> "", err |-> https.err,
                                   context |-> prepared.context, hosts |-> https.hosts ]
    /\ UNCHANGED <<certificateVars, trustVars>>

\* RunE (runServe for `ghttp`, runHTTPSServe for `ghttp https serve`), which
\* the command runs once PreRunE returned nil: it takes what PreRunE stored
\* in the context and goes on to start a server.
RunE ==
    /\ command.stage = "prepared"
    /\ command' = [ command EXCEPT !.stage = "running",
                                   !.err = IF command.context.stored THEN ""
                                           ELSE "serve configuration not initialized" ]
    /\ UNCHANGED <<certificateVars, trustVars>>

PrepareNext == PreRunE \/ RunE

PrepareSpec == Init /\ [][PrepareNext]_vars

\* A TLS path is set when it is not blank.
PathSet(path) == path \notin { "", " " }

\* Directory, protocol, port and logging type pass their checks.
OtherSettingsValid(given) ==
    /\ given.directory = "directory"
    /\ given.protocol \in { "HTTP/1.1", "http/1.0" }
    /\ given.port \in { "", "8080" }
    /\ given.logging \in { "", "json" }

\* C31: prepareServeConfiguration returns an error when exactly one of the
\* TLS certificate path and the TLS key path is set, when the https flag
\* comes with TLS paths ("cannot combine https flag" when nothing else is
\* wrong), and when TLS paths are given to a command that does not allow
\* them; whenever it returns an error the context holds no serve
\* configuration, PreRunE returns that error, and no such command goes on
\* to run.
C31_InconsistentTLSSettingsRejected ==
    command.stage \in { "prepared", "failed", "running" }
      => LET given == command.given
             certificateSet == PathSet(given.certificate)
             keySet == PathSet(given.key)
             inconsistent ==
                 \/ certificateSet # keySet
                 \/ given.https /\ (certificateSet \/ keySet)
                 \/ ~command.allowTLSFiles /\ (certificateSet \/ keySet)
         IN  /\ inconsistent => command.stage = "failed" /\ command.prepareErr # ""
             /\ ( /\ command.allowTLSFiles /\ given.https /\ certificateSet /\ keySet
                  /\ OtherSettingsValid(given) )
                  => command.prepareErr = "cannot combine https flag with tls certificate flags"
             /\ ( /\ command.allowTLSFiles /\ certificateSet # keySet
                  /\ OtherSettingsValid(given) )
                  => command.prepareErr = "tls certificate and key must be provided together"
             /\ ( /\ ~command.allowTLSFiles /\ (certificateSet \/ keySet)
                  /\ OtherSettingsValid(given) )
                  => command.prepareErr = "tls certificate flags are not supported for this command"
             /\ command.prepareErr # "" <=> command.context = NoServeConfiguration
             /\ command.prepareErr # "" => command.err = command.prepareErr
             /\ command.stage = "failed" <=> command.err # ""
             /\ command.stage = "running"
                  => /\ command.context.stored
                     /\ (command.context.TLSCertificatePath = "")
                            = (command.context.TLSPrivateKeyPath = "")
                     /\ ~( /\ command.context.EnableDynamicHTTPS
                           /\ command.context.TLSCertificatePath # "" )

\* The case of TestPrepareServeConfigurationRejectsHTTPSWithTLSFiles.
C31_Witness ==
    /\ command.stage = "failed"
    /\ command.allowTLSFiles
    /\ command.given.https
    /\ command.given.certificate = "cert.pem"
    /\ command.given.key = "key.pem"
    /\ command.given.protocol = "HTTP/1.1"
    /\ command.given.port = "8080"
    /\ command.prepareErr = "cannot combine https flag with tls certificate flags"
    /\ command.err = command.prepareErr
    /\ command.context = NoServeConfiguration

----------------------------------------------------------------------------
(* runServe from createSignalContext on: the command's goroutine, the      *)
(* signal watcher and the goroutine of FileServer.Serve that runs the      *)
(* listener.                                                               *)

MaxSignals == 2

\* make(chan error, 1) and make(chan os.Signal, 1)
serverErrorsCapacity == 1

signalChannelCapacity == 1

\* A send on a result channel without buffer, once nobody receives from it.
CanSendUnbuffered(channel) == FALSE

\* serverErrors <- serveErr goes through when the buffer has room.
CanSend(channel) == Len(channel) < serverErrorsCapacity

Signals == { "SIGINT", "SIGTERM" }

\* What ListenAndServe returns: the error of net.Listen, a permanent error
\* of Accept, or http.ErrServerClosed once Shutdown was called.
ErrServerClosed == "http: Server closed"

\* Serve's select, case serveErr := <-serverErrors, taking every value for nil.
serveResultIgnoringTheError(serveErr) == ""

\* Serve's select, case serveErr := <-serverErrors.
serveResult(serveErr) ==
    IF serveErr # "" /\ serveErr # ErrServerClosed THEN "serve http" ELSE ""

\* Serve's select, case <-ctx.Done(), after server.Shutdown returned.
shutdownResult(shutdownErr) ==
    IF shutdownErr # "" THEN "shutdown server" ELSE ""

\* The function createSignalContext returns, first call:
\* signal.Stop(signalChannel).
signalStop(context) == [ context EXCEPT !.notifying = FALSE ]

\* The function createSignalContext returns without its call of cancel.
cancelLeftOut(context) == context

\* The function createSignalContext returns, second call: cancel().
cancelAfterStop(context) ==
    [ context EXCEPT !.ctxDone = TRUE,
                     !.cause = IF context.ctxDone THEN context.cause ELSE "cancel" ]

\* cancel() called by the watcher for the signal it received.
cancelForSignal(context) ==
    [ context EXCEPT !.ctxDone = TRUE,
                     !.cause = IF context.ctxDone THEN context.cause ELSE "signal" ]

ServeInit ==
    /\ currentTime = 0
    /\ disk = EmptyDisk
    /\ randomDraws = 0
    /\ configuration \in [ authority : AuthorityConfigurations, leaf : LeafConfigurations ]
    /\ heldAuthority = NoMaterial
    /\ lastCall = NoCall
    /\ command \in
          { [ stage |-> "run", certificateConfigured |-> tls, parentDone |-> parentDone,
              ctxDone |-> FALSE, cause |-> "none", notifying |-> FALSE,
              signalChannel |-> <<>>, signals |-> 0,
              watcher |-> "none", received |-> "",
              listener |-> "none", serveErr |-> "", serverErrors |-> <<>>, sends |-> 0,
              server |-> "new", branch |-> "", shutdownErr |-> "", wrapped |-> "",
              result |-> "" ] : tls \in BOOLEAN, parentDone \in BOOLEAN }
    /\ installer = NoInstaller
    /\ executed = <<>>
    /\ calls = <<>>
    /\ trustStore = NoFile
    /\ started = <<>>
    /\ managers = NoManagers

ServeUnchanged == UNCHANGED <<certificateVars, trustVars>>

\* createSignalContext: the context derived from the parent, the signal
\* channel registered, the watcher started.
CreateSignalContext ==
    /\ command.stage = "run"
    /\ command' = [ command EXCEPT !.stage = "serve",
                                   !.notifying = TRUE,
                                   !.watcher = "waiting",
                                   !.ctxDone = command.parentDone,
                                   !.cause = IF command.parentDone THEN "parent" ELSE "none" ]
    /\ ServeUnchanged

\* The parent context is cancelled.
ParentCancelled ==
    /\ command.stage # "run"
    /\ ~command.parentDone
    /\ command' = [ command EXCEPT !.parentDone = TRUE,
                                   !.ctxDone = TRUE,
                                   !.cause = IF command.ctxDone THEN command.cause
                                             ELSE "parent" ]
    /\ ServeUnchanged

\* The process is sent SIGINT or SIGTERM while the channel is registered:
\* the signal is queued when the channel has room, dropped otherwise.
SignalArrives ==
    /\ command.notifying
    /\ command.signals < MaxSignals
    /\ \E signal \in Signals :
          command' = [ command EXCEPT
                          !.signals = command.signals + 1,
                          !.signalChannel =
                              IF Len(command.signalChannel) < signalChannelCapacity
                              THEN Append(command.signalChannel, signal)
                              ELSE command.signalChannel ]
    /\ ServeUnchanged

\* The watcher's select, case <-ctx.Done().
WatcherSeesDone ==
    /\ command.watcher = "waiting"
    /\ command.ctxDone
    /\ command' = [ command EXCEPT !.watcher = "exited" ]
    /\ ServeUnchanged

\* The watcher's select, case receivedSignal := <-signalChannel: the signal
\* is taken off the channel and logged.
WatcherReceivesSignal ==
    /\ command.watcher = "waiting"
    /\ command.signalChannel # <<>>
    /\ command' = [ command EXCEPT !.watcher = "received",
                                   !.received = Head(command.signalChannel),
                                   !.signalChannel = Tail(command.signalChannel) ]
    /\ ServeUnchanged

\* The watcher calls cancel() for the signal it received, and returns.
WatcherCancels ==
    /\ command.watcher = "received"
    /\ command' = [ cancelForSignal(command) EXCEPT !.watcher = "exited" ]
    /\ ServeUnchanged

\* Serve up to its select: configureTLS, then the goroutine is started.
ServeStarts ==
    /\ command.stage = "serve"
    /\ \E configureErr \in IF command.certificateConfigured THEN BOOLEAN ELSE { FALSE } :
          command' =
              IF configureErr
              THEN [ command EXCEPT !.stage = "serve_returned", !.branch = "configure",
                                    !.result = "configure tls" ]
              ELSE [ command EXCEPT !.stage = "select", !.listener = "starting" ]
    /\ ServeUnchanged

\* ListenAndServe fails to listen (the port is in use).
ListenFails ==
    /\ command.listener = "starting"
    /\ command.server = "new"
    /\ command' = [ command EXCEPT !.listener = "sending", !.serveErr = "address in use" ]
    /\ ServeUnchanged

\* ListenAndServe listens and serves.
ListenSucceeds ==
    /\ command.listener = "starting"
    /\ command.server = "new"
    /\ command' = [ command EXCEPT !.listener = "serving", !.server = "listening" ]
    /\ ServeUnchanged

\* Accept fails for good while serving.
AcceptFails ==
    /\ command.listener = "serving"
    /\ command.server = "listening"
    /\ command' = [ command EXCEPT !.listener = "sending", !.serveErr = "accept" ]
    /\ ServeUnchanged

\* ListenAndServe returns http.ErrServerClosed: Shutdown was called before
\* it listened or while it served.
ServeStops ==
    /\ command.listener \in { "starting", "serving" }
    /\ command.server = "shutdown"
    /\ command' = [ command EXCEPT !.listener = "sending", !.serveErr = ErrServerClosed ]
    /\ ServeUnchanged

\* serverErrors <- serveErr
ListenerSends ==
    /\ command.listener = "sending"
    /\ CanSend(command.serverErrors)
    /\ command' = [ command EXCEPT !.listener = "done",
                                   !.serverErrors = Append(command.serverErrors,
                                                           command.serveErr),
                                   !.sends = command.sends + 1 ]
    /\ ServeUnchanged

\* Serve's select, case <-ctx.Done(): server.Shutdown is called.
SelectDone ==
    /\ command.stage = "select"
    /\ command.ctxDone
    /\ command' = [ command EXCEPT !.stage = "shutdown", !.branch = "done",
                                   !.server = "shutdown" ]
    /\ ServeUnchanged

\* server.Shutdown returns: nil, or the error of its context when the
\* grace period ran out.
ShutdownReturns ==
    /\ command.stage = "shutdown"
    /\ \E shutdownErr \in { "", "context deadline exceeded" } :
          command' = [ command EXCEPT !.stage = "serve_returned",
                                      !.shutdownErr = shutdownErr,
                                      !.result = shutdownResult(shutdownErr) ]
    /\ ServeUnchanged

\* Serve's select, case serveErr := <-serverErrors.
SelectServerError ==
    /\ command.stage = "select"
    /\ command.serverErrors # <<>>
    /\ command' = [ command EXCEPT !.stage = "serve_returned", !.branch = "error",
                                   !.serverErrors = Tail(command.serverErrors),
                                   !.wrapped = Head(command.serverErrors),
                                   !.result = serveResult(Head(command.serverErrors)) ]
    /\ ServeUnchanged

\* runServe's deferred function after Serve returned, first call: the
\* delivery of signals to the channel is stopped.
DeferredStop ==
    /\ command.stage = "serve_returned"
    /\ command' = [ signalStop(command) EXCEPT !.stage = "stopped" ]
    /\ ServeUnchanged

\* runServe's deferred function, second call: the context is cancelled and
\* runServe returns.
DeferredCancel ==
    /\ command.stage = "stopped"
    /\ command' = [ cancelAfterStop(command) EXCEPT !.stage = "returned" ]
    /\ ServeUnchanged

CommandSteps ==
    CreateSignalContext \/ ServeStarts \/ SelectDone \/ SelectServerError \/ ShutdownReturns
      \/ DeferredStop \/ DeferredCancel

WatcherSteps == WatcherSeesDone \/ WatcherReceivesSignal \/ WatcherCancels

ListenerSteps == ListenFails \/ ListenSucceeds \/ ServeStops \/ ListenerSends

ServeNext ==
    CommandSteps \/ WatcherSteps \/ ListenerSteps \/ ParentCancelled \/ SignalArrives
      \/ AcceptFails

ServingSpec == ServeInit /\ [][ServeNext]_vars

\* Every goroutine that can take a step is scheduled; signals, the parent's
\* cancellation and failures of Accept may never come.
ServingLiveSpec ==
    /\ ServeInit
    /\ [][ServeNext]_vars
    /\ WF_vars(CommandSteps)
    /\ WF_vars(WatcherSteps)
    /\ WF_vars(ListenerSteps)

ServeReturned == command.stage \in { "serve_returned", "stopped", "returned" }

ListenerFailed == command.serveErr \in { "address in use", "accept" }

\* C32: FileServer.Serve ends on the listener failing or on the context
\* being cancelled.  On a listener failure it returns "serve http" wrapping
\* the error of the listener, without the context being cancelled and
\* without shutting the server down; on the context being done it calls
\* Shutdown and returns nil when Shutdown returned nil and "shutdown server"
\* otherwise.  When only one of the two has happened Serve takes that one,
\* and it waits while neither has.  A failed listener always brings Serve
\* to return, and so does a cancelled context.
C32_ServeEndsOnFailureOrCancellation ==
    /\ [](ServeReturned
            => /\ command.branch = "error"
                    => /\ command.result = "serve http"
                       /\ command.wrapped \in { "address in use", "accept" }
                       /\ command.server # "shutdown"
               /\ command.branch = "done"
                    => /\ command.ctxDone
                       /\ command.server = "shutdown"
                       /\ command.shutdownErr = "" => command.result = ""
                       /\ command.shutdownErr # "" => command.result = "shutdown server"
               /\ command.result = "serve http" <=> command.branch = "error"
               /\ command.result = "shutdown server"
                    => command.branch = "done" /\ command.shutdownErr # "")
    /\ [](command.stage = "select" /\ ~command.ctxDone /\ command.serverErrors = <<>>
            => ~ENABLED CommandSteps)
    /\ [][ (command.stage = "select" /\ command'.stage # "select")
            => /\ ~command.ctxDone
                    => command'.branch = "error" /\ command'.result = "serve http"
               /\ command.serverErrors = <<>>
                    => command'.branch = "done" /\ command'.server = "shutdown" ]_vars
    /\ ListenerFailed ~> ServeReturned
    /\ (command.stage = "select" /\ command.ctxDone) ~> ServeReturned

\* The port is in use and nothing cancels the context before Serve returns.
C32_Witness ==
    /\ command.stage = "returned"
    /\ command.branch = "error"
    /\ command.result = "serve http"
    /\ command.wrapped = "address in use"
    /\ command.cause = "cancel"
    /\ command.signals = 0

\* The context is cancelled while the server serves and Shutdown runs out
\* of its grace period.
C32_WitnessOfShutdown ==
    /\ command.stage = "returned"
    /\ command.branch = "done"
    /\ command.result = "shutdown server"
    /\ command.cause = "signal"
    /\ command.serverErrors = <<ErrServerClosed>>

\* C37: the goroutine Serve starts always delivers its result and ends.  It
\* sends once, on a channel with room for one value, so the send never
\* waits; when Serve returned through the context branch nobody receives
\* the value and the goroutine ends all the same.
C37_ListenerGoroutineEnds ==
    /\ [](/\ command.sends <= 1
          /\ Len(command.serverErrors) <= serverErrorsCapacity
          /\ command.listener = "sending" => Len(command.serverErrors) < serverErrorsCapacity
          /\ command.listener = "done" => command.sends = 1)
    /\ (command.listener = "sending") ~> (command.listener = "done")
    /\ (command.branch = "done") ~> (command.listener = "done")
    /\ (command.stage = "returned") ~> (command.listener \in { "none", "done" })

C37_Witness ==
    /\ command.stage = "returned"
    /\ command.branch = "done"
    /\ command.result = ""
    /\ command.listener = "done"
    /\ command.sends = 1
    /\ command.serverErrors = <<ErrServerClosed>>

\* C39: the watcher of createSignalContext always ends.  It ends on a
\* signal, having called cancel (the context is then cancelled because of
\* the signal unless something else cancelled it before that call), or on
\* the context being done;
\* the function createSignalContext returns stops the delivery of signals
\* and cancels the context, after which the watcher ends though no signal
\* came.
C39_SignalWatcherEnds ==
    /\ [](/\ command.watcher = "exited" => command.ctxDone
          /\ command.received # ""
                <=> command.received \in Signals /\ command.watcher \in { "received", "exited" }
          /\ command.cause = "signal"
                => command.received \in Signals /\ command.watcher = "exited"
          /\ command.stage \in { "stopped", "returned" }
                => ~command.notifying /\ ~ENABLED SignalArrives
          /\ command.stage = "returned" => command.ctxDone)
    /\ [][ ( /\ command.watcher = "received"
             /\ command'.watcher = "exited" )
              => /\ command'.ctxDone
                 /\ ~command.ctxDone => command'.cause = "signal"
                 /\ command.ctxDone => command'.cause = command.cause ]_vars
    /\ [][ ( /\ command.watcher = "waiting"
             /\ command'.watcher = "exited" )
              => command.ctxDone /\ command'.received = "" ]_vars
    /\ (command.watcher = "waiting" /\ command.signalChannel # <<>>)
          ~> (command.watcher = "exited")
    /\ (command.watcher = "received") ~> (command.watcher = "exited")
    /\ (command.watcher = "waiting" /\ command.ctxDone) ~> (command.watcher = "exited")
    /\ (command.stage = "returned") ~> (command.watcher = "exited")

\* No signal came: the deferred cancel ended the watcher.
C39_Witness ==
    /\ command.stage = "returned"
    /\ command.watcher = "exited"
    /\ command.received = ""
    /\ command.signals = 0
    /\ command.cause = "cancel"
    /\ ~command.parentDone
    /\ ~command.notifying

\* SIGTERM came while the server served.
C39_WitnessOfSignal ==
    /\ command.watcher = "exited"
    /\ command.received = "SIGTERM"
    /\ command.cause = "signal"
    /\ command.stage = "select"
    /\ command.listener = "serving"

\* The watcher took SIGTERM off the channel; before it called cancel a
\* SIGINT was queued and the deferred function cancelled the context.
C39_WitnessOfLateCancel ==
    /\ command.watcher = "exited"
    /\ command.received = "SIGTERM"
    /\ command.signalChannel = <<"SIGINT">>
    /\ command.cause = "cancel"
    /\ command.stage = "returned"

====
